---------------------------- MODULE Spec2Model ----------------------------
(***************************************************************************)
(* Model of the docgen2 document assembly engine: the renderer             *)
(* (RenderComponent), the shell store (InMemoryDocx: Clone, ToBytes), the  *)
(* assembler (Engine.AssembleDocument, addComponentToBody), the plan       *)
(* validator wired to assets/schemas/rules.cue, and the POST /generate     *)
(* handler.                                                                *)
(*                                                                         *)
(* A Go string or []byte is a sequence of symbols.  A symbol is one        *)
(* character ("a", "<", "&", "{" ...), except that a markup tag written by *)
(* the author of a template or of the shell ("<w:p>", "</w:p>"), an         *)
(* identifier used as a prop key or component name ("document_title") and  *)
(* the opening "map[" that fmt prints for a map are one symbol each.       *)
(***************************************************************************)
EXTENDS Integers, Sequences, FiniteSets, TLC

VARIABLES
    engine,      \* Engine{shell, components}: shell is a reference to an InMemoryDocx
    docx,        \* heap of InMemoryDocx maps: reference -> (path -> buffer reference)
    bufs,        \* heap of []byte buffers: buffer reference -> symbols
    pc,          \* per request: position in GenerateHandler / AssembleDocument
    mode,        \* per request: "http" (GenerateHandler) or "direct" (Engine.Assemble)
    plan,        \* per request: the plan carried by the request
    vres,        \* per request: whether ValidatePlan ran, and its ValidationResult
    workingDoc,  \* per request: reference to the working copy (local of AssembleDocument)
    doc,         \* per request: the parsed etree document (local of AssembleDocument)
    idx,         \* per request: index of the next plan.Body entry to add
    ret,         \* per request: what Assemble returned
    resp,        \* per request: what the handler wrote to the ResponseWriter
    rPieces,     \* renderer harness: the template, as the pieces it is written from
    rProps,      \* renderer harness: the props map
    rOut,        \* renderer harness: the string RenderComponent returned
    rPc,         \* renderer harness: "ready" or "done"
    cPc,         \* shell store harness: "start", "cloned" or "changed"
    cLast,       \* shell store harness: the last change (its target, the contents
                 \* of both InMemoryDocx before it) and the number of changes made
    boot         \* runServer: its position, the files it starts from, and what
                 \* NewEngine has loaded so far

vars == <<engine, docx, bufs, pc, mode, plan, vres, workingDoc, doc, idx, ret, resp,
          rPieces, rProps, rOut, rPc, cPc, cLast, boot>>

srvVars == <<engine, docx, bufs, pc, mode, plan, vres, workingDoc, doc, idx, ret, resp>>
renderVars == <<rPieces, rProps, rOut, rPc>>
cloneVars == <<cPc, cLast>>

-----------------------------------------------------------------------------
(* Bounds of the model *)

\* number of concurrent requests served by one Engine
NumRequests == 2
\* longest plan body handed to a direct Engine.Assemble call
MaxBody == 3
\* number of pieces a renderer-harness template is written from
MaxPieces == 2
\* number of changes made to the original and its clone in the shell store harness
MaxChanges == 2

-----------------------------------------------------------------------------
(* Strings *)

None == "none"

Min(S) == CHOOSE x \in S : \A y \in S : x <= y

RECURSIVE Flatten(_)
Flatten(ss) == IF ss = <<>> THEN <<>> ELSE Head(ss) \o Flatten(Tail(ss))

\* s[i..] starts with old
HasPrefixAt(s, i, old) ==
    /\ i + Len(old) - 1 <= Len(s)
    /\ \A j \in 1..Len(old) : s[i + j - 1] = old[j]

Contains(s, sub) == \E i \in 1..(Len(s) + 1) : HasPrefixAt(s, i, sub)

SeqsUpTo(S, n) == UNION {[1..k -> S] : k \in 0..n}

Perms(S) == {f \in [1..Cardinality(S) -> S] : \A i, j \in 1..Cardinality(S) : f[i] = f[j] => i = j}

-----------------------------------------------------------------------------
(* Renderer: RenderComponent *)

QUOT == "\""
APOS == "'"

Str(s) == [t |-> "str", s |-> s, b |-> FALSE]
Nil == [t |-> "nil", s |-> <<>>, b |-> FALSE]
Bool(b) == [t |-> "bool", s |-> <<>>, b |-> b]

\* a Go value a map[string]interface{} can hold that is no JSON value (a func,
\* a channel): a caller of Validate can pass it, a decoded request cannot
Func == [t |-> "func", s |-> <<>>, b |-> FALSE]

\* a JSON array of component instances, as encoding/json decodes it into an
\* interface{}: []interface{} of map[string]interface{}
List(items) == [t |-> "list", s |-> <<>>, b |-> FALSE, items |-> items]

\* the prop keys of the model, in the order of Go's sort of strings
AllKeysSorted == <<"category_title", "children", "document_subject", "document_title",
                   "text", "title", "x", "y">>

\* the keys of a map in sorted order: fmt prints a map with its keys sorted
SortedKeys(props) == SelectSeq([i \in 1..Len(AllKeysSorted) |-> <<AllKeysSorted[i]>>],
                               LAMBDA k : k \in DOMAIN props)

\* the texts of a sequence, with one space between them
RECURSIVE JoinSpace(_)
JoinSpace(texts) ==
    IF texts = <<>> THEN <<>>
    ELSE IF Len(texts) = 1 THEN texts[1]
    ELSE texts[1] \o <<" ">> \o JoinSpace(Tail(texts))

\* fmt.Sprintf("%v", value): a string as it is, nil as <nil>, a bool as
\* true/false, a slice as [e1 e2], a map as map[k1:v1 k2:v2]
RECURSIVE Sprintv(_)
RECURSIVE SprintProps(_)
RECURSIVE SprintInstance(_)
Sprintv(value) ==
    CASE value.t = "str" -> value.s
      [] value.t = "nil" -> <<"<", "n", "i", "l", ">">>
      [] value.t = "bool" -> IF value.b THEN <<"t", "r", "u", "e">>
                                        ELSE <<"f", "a", "l", "s", "e">>
      [] value.t = "list" ->
            <<"[">> \o JoinSpace([i \in 1..Len(value.items) |-> SprintInstance(value.items[i])])
                    \o <<"]">>

\* %v of the props map of an instance
SprintProps(props) ==
    <<"map[">>
        \o JoinSpace([i \in 1..Len(SortedKeys(props)) |->
              SortedKeys(props)[i] \o <<":">> \o Sprintv(props[SortedKeys(props)[i]])])
        \o <<"]">>

\* %v of a decoded component instance: map[component:Name props:map[...]]
SprintInstance(inst) ==
    <<"map[", "component", ":", inst.component, " ", "props", ":">>
        \o SprintProps(inst.props) \o <<"]">>

\* a plausible slip: only the three characters of the test are escaped
EscapeCharNoQuotes(c) ==
    CASE c = "&" -> <<"&", "a", "m", "p", ";">>
      [] c = "<" -> <<"&", "l", "t", ";">>
      [] c = ">" -> <<"&", "g", "t", ";">>
      [] OTHER -> <<c>>

\* the replacement table of html.EscapeString
EscapeChar(c) ==
    CASE c = "&" -> <<"&", "a", "m", "p", ";">>
      [] c = APOS -> <<"&", "#", "3", "9", ";">>
      [] c = "<" -> <<"&", "l", "t", ";">>
      [] c = ">" -> <<"&", "g", "t", ";">>
      [] c = QUOT -> <<"&", "#", "3", "4", ";">>
      [] OTHER -> <<c>>

\* html.EscapeString
EscapeString(s) == Flatten([i \in 1..Len(s) |-> EscapeChar(s[i])])

\* fmt.Sprintf("{{ %s }}", key)
Placeholder(key) == <<"{", "{", " ">> \o key \o <<" ", "}", "}">>

\* The replacement pairs, in the order the props map was iterated
Replacements(props, order) ==
    [i \in 1..Len(order) |->
        [old |-> Placeholder(order[i]), new |-> EscapeString(Sprintv(props[order[i]]))]]

\* strings.Replacer.Replace: one scan of s; at each position the matching old
\* string that comes first in argument order is replaced, and the scan goes on
\* after the replaced text.
RECURSIVE ReplaceFrom(_, _, _)
ReplaceFrom(pairs, s, i) ==
    IF i > Len(s) THEN <<>>
    ELSE LET m == {p \in 1..Len(pairs) : HasPrefixAt(s, i, pairs[p].old)}
         IN IF m = {} THEN <<s[i]>> \o ReplaceFrom(pairs, s, i + 1)
            ELSE pairs[Min(m)].new \o ReplaceFrom(pairs, s, i + Len(pairs[Min(m)].old))

\* a plausible slip: one strings.ReplaceAll per key, each over the result of the last
RECURSIVE ReplaceOneByOne(_, _)
ReplaceOneByOne(pairs, s) ==
    IF pairs = <<>> THEN s
    ELSE ReplaceOneByOne(Tail(pairs), ReplaceFrom(<<Head(pairs)>>, s, 1))

\* strings.NewReplacer(replacements...).Replace(template)
Replace(pairs, s) == ReplaceFrom(pairs, s, 1)

\* RenderComponent(template, props); order is the iteration order of the Go map
RenderComponent(template, props, order) ==
    IF DOMAIN props = {} THEN template
    ELSE Replace(Replacements(props, order), template)

\* XML entity decoding of character data, as an XML reader does it
Entities == {"&", APOS, "<", ">", QUOT}

RECURSIVE UnescapeFrom(_, _)
UnescapeFrom(s, i) ==
    IF i > Len(s) THEN <<>>
    ELSE LET m == {c \in Entities : HasPrefixAt(s, i, EscapeChar(c))}
         IN IF s[i] = "&" /\ m # {}
            THEN LET c == CHOOSE c \in m : TRUE
                 IN <<c>> \o UnescapeFrom(s, i + Len(EscapeChar(c)))
            ELSE <<s[i]>> \o UnescapeFrom(s, i + 1)

Unescape(s) == UnescapeFrom(s, 1)

-----------------------------------------------------------------------------
(* XML documents as etree reads, changes and writes them *)

ElemNames == {"w:document", "w:body", "w:p", "w:sectPr", "temp"}

Open(n) ==
    CASE n = "w:document" -> "<w:document>"
      [] n = "w:body" -> "<w:body>"
      [] n = "w:p" -> "<w:p>"
      [] n = "w:sectPr" -> "<w:sectPr>"
      [] n = "temp" -> "<temp>"

Close(n) ==
    CASE n = "w:document" -> "</w:document>"
      [] n = "w:body" -> "</w:body>"
      [] n = "w:p" -> "</w:p>"
      [] n = "w:sectPr" -> "</w:sectPr>"
      [] n = "temp" -> "</temp>"

Empty(n) ==
    CASE n = "w:document" -> "<w:document/>"
      [] n = "w:body" -> "<w:body/>"
      [] n = "w:p" -> "<w:p/>"
      [] n = "w:sectPr" -> "<w:sectPr/>"
      [] n = "temp" -> "<temp/>"

OpenSyms == {Open(n) : n \in ElemNames}
CloseSyms == {Close(n) : n \in ElemNames}
EmptySyms == {Empty(n) : n \in ElemNames}
IsTag(c) == c \in OpenSyms \cup CloseSyms \cup EmptySyms
NameOf(c) == CHOOSE n \in ElemNames : c \in {Open(n), Close(n), Empty(n)}
IsSpace(c) == c \in {" ", "\n"}

\* the reader's element nesting check: every end tag closes the open element
RECURSIVE BalancedFrom(_, _, _)
BalancedFrom(s, i, stack) ==
    IF i > Len(s) THEN stack = <<>>
    ELSE IF s[i] \in OpenSyms THEN BalancedFrom(s, i + 1, <<NameOf(s[i])>> \o stack)
    ELSE IF s[i] \in CloseSyms
         THEN /\ stack # <<>>
              /\ Head(stack) = NameOf(s[i])
              /\ BalancedFrom(s, i + 1, Tail(stack))
    ELSE BalancedFrom(s, i + 1, stack)

\* character data the reader accepts: no bare <, and every & starts an entity
CharDataOK(s) ==
    \A i \in 1..Len(s) :
        /\ s[i] # "<"
        /\ s[i] = "&" => \E c \in Entities : HasPrefixAt(s, i, EscapeChar(c))

\* an element written <x/> is read as an element without children
ExpandEmpty(s) ==
    Flatten([i \in 1..Len(s) |->
        IF s[i] \in EmptySyms THEN <<Open(NameOf(s[i])), Close(NameOf(s[i]))>>
        ELSE <<s[i]>>])

\* etree Document.ReadFromBytes / ReadFromString: ok is FALSE when the reader
\* reports an error; tree is the token tree in document order, every element
\* as its start and end tag, character data decoded
ParseXML(bytes) ==
    IF BalancedFrom(bytes, 1, <<>>) /\ CharDataOK(bytes)
    THEN [ok |-> TRUE, tree |-> Unescape(ExpandEmpty(bytes))]
    ELSE [ok |-> FALSE, tree |-> <<>>]

\* a plausible slip: without a w:body the root element is taken as the body
FindBodyOrRoot(tree) ==
    IF \E i \in 1..Len(tree) : tree[i] = Open("w:body")
    THEN Min({i \in 1..Len(tree) : tree[i] = Open("w:body")})
    ELSE 1

\* doc.FindElement("//w:body"): the first w:body in document order, 0 for nil
FindBody(tree) ==
    IF \E i \in 1..Len(tree) : tree[i] = Open("w:body")
    THEN Min({i \in 1..Len(tree) : tree[i] = Open("w:body")})
    ELSE 0

\* index of the end tag of the element whose start tag is at i
RECURSIVE CloseFrom(_, _, _)
CloseFrom(tree, j, depth) ==
    IF tree[j] \in OpenSyms THEN CloseFrom(tree, j + 1, depth + 1)
    ELSE IF tree[j] \in CloseSyms
         THEN IF depth = 1 THEN j ELSE CloseFrom(tree, j + 1, depth - 1)
    ELSE CloseFrom(tree, j + 1, depth)

MatchClose(tree, i) == CloseFrom(tree, i + 1, 1)

\* Element.ChildElements: the child elements of the element at i, in order,
\* each with its whole subtree; character data between them is not an element
RECURSIVE ChildElementsFrom(_, _, _)
ChildElementsFrom(tree, j, end) ==
    IF j >= end THEN <<>>
    ELSE IF tree[j] \in OpenSyms
         THEN <<SubSeq(tree, j, MatchClose(tree, j))>>
                 \o ChildElementsFrom(tree, MatchClose(tree, j) + 1, end)
    ELSE ChildElementsFrom(tree, j + 1, end)

ChildElements(tree, i) == ChildElementsFrom(tree, i + 1, MatchClose(tree, i))

\* a plausible slip: the element takes the place of what the body holds
AddChildReplace(tree, i, elem) ==
    SubSeq(tree, 1, i) \o elem \o SubSeq(tree, MatchClose(tree, i), Len(tree))

\* a plausible slip: the element is put in front of the children the body has
AddChildFirst(tree, i, elem) ==
    SubSeq(tree, 1, i) \o elem \o SubSeq(tree, i + 1, Len(tree))

\* body.AddChild(child.Copy()): the element becomes the last child of the
\* element at i
AddChild(tree, i, elem) ==
    SubSeq(tree, 1, MatchClose(tree, i) - 1) \o elem
        \o SubSeq(tree, MatchClose(tree, i), Len(tree))

RECURSIVE AddChildren(_, _, _)
AddChildren(tree, i, elems) ==
    IF elems = <<>> THEN tree
    ELSE AddChildren(AddChild(tree, i, Head(elems)), i, Tail(elems))

\* Indent drops the character data that is only whitespace
RECURSIVE StripIndent(_, _)
StripIndent(tree, i) ==
    IF i > Len(tree) THEN <<>>
    ELSE IF IsTag(tree[i]) THEN <<tree[i]>> \o StripIndent(tree, i + 1)
    ELSE LET ends == {j \in i..Len(tree) : j = Len(tree) \/ IsTag(tree[j + 1])}
             e == Min(ends)
             run == SubSeq(tree, i, e)
         IN (IF \A k \in 1..Len(run) : IsSpace(run[k]) THEN <<>> ELSE run)
               \o StripIndent(tree, e + 1)

\* doc.Indent(2); doc.WriteToBytes(): every child element starts on a new line
\* (but the first element of the document), an end tag that follows a child
\* element starts on a new line, an element without children is written <x/>,
\* character data is escaped.  The newline symbol stands for the newline and
\* the indentation that follows it; prev is "start", "open", "close" or "text".
RECURSIVE WriteFrom(_, _, _, _)
WriteFrom(t, i, depth, prev) ==
    IF i > Len(t) THEN (IF prev = "close" THEN <<"\n">> ELSE <<>>)
    ELSE LET nl == IF depth > 0 \/ prev # "start" THEN <<"\n">> ELSE <<>>
         IN IF t[i] \in OpenSyms /\ i < Len(t) /\ t[i + 1] = Close(NameOf(t[i]))
            THEN nl \o <<Empty(NameOf(t[i]))>> \o WriteFrom(t, i + 2, depth, "close")
            ELSE IF t[i] \in OpenSyms
            THEN nl \o <<t[i]>> \o WriteFrom(t, i + 1, depth + 1, "open")
            ELSE IF t[i] \in CloseSyms
            THEN (IF prev = "close" THEN <<"\n">> ELSE <<>>) \o <<t[i]>>
                    \o WriteFrom(t, i + 1, depth - 1, "close")
            ELSE EscapeChar(t[i]) \o WriteFrom(t, i + 1, depth, "text")

WriteXML(tree) == WriteFrom(StripIndent(tree, 1), 1, 0, "start")

-----------------------------------------------------------------------------
(* Shell store: InMemoryDocx on a heap of maps and byte buffers *)

DocumentXML == "word/document.xml"
StylesXML == "word/styles.xml"

\* the files and bytes an InMemoryDocx reference stands for
View(heap, m) == [p \in DOMAIN heap.docx[m] |-> heap.bufs[heap.docx[m][p]]]

\* a plausible slip: the shell map itself is handed out as the working copy
CloneAlias(heap, shell, new) == [heap |-> heap, ref |-> shell]

\* a plausible slip: a new map, whose entries are the byte slices of the shell
CloneShallow(heap, shell, new) ==
    [heap |-> [heap EXCEPT !.docx = (new :> heap.docx[shell]) @@ heap.docx],
     ref |-> new]

\* InMemoryDocx.Clone: a new map, and for every path a new buffer with a copy
\* of the content; new names the map and the buffers that are allocated
Clone(heap, shell, new) ==
    [heap |->
        [docx |-> (new :> [p \in DOMAIN heap.docx[shell] |-> <<new, p, 0>>]) @@ heap.docx,
         bufs |-> [b \in {<<new, p, 0>> : p \in DOMAIN heap.docx[shell]} |->
                      heap.bufs[heap.docx[shell][b[2]]]] @@ heap.bufs],
     ref |-> new]

\* for path, content := range shell: Go iterates a map in an unspecified order
ToBytesOrders(paths) == Perms(paths)

\* a plausible slip: the loop over the map stops one entry short
ToBytesShort(view, order) ==
    [i \in 1..(Len(order) - 1) |-> [name |-> order[i], content |-> view[order[i]]]]

\* InMemoryDocx.ToBytes: one zip entry per path, in the order the map is
\* iterated; the archive is the sequence of its entries (name, content)
ToBytes(view, order) == [i \in 1..Len(order) |-> [name |-> order[i], content |-> view[order[i]]]]

\* reading the archive back: path -> content
Unzip(zip) ==
    [p \in {zip[i].name : i \in 1..Len(zip)} |->
        (CHOOSE e \in {zip[i] : i \in 1..Len(zip)} : e.name = p).content]

-----------------------------------------------------------------------------
(* Component library and errors *)

NoErr == [isNil |-> TRUE, op |-> "", kind |-> "", name |-> ""]

\* &ComponentNotFoundError{ComponentName: name}
ComponentNotFoundError(name) ==
    [isNil |-> FALSE, op |-> "", kind |-> "ComponentNotFound", name |-> name]

\* fmt.Errorf("failed to parse rendered component XML: %w", err)
ParseError(name) == [isNil |-> FALSE, op |-> "", kind |-> "parse", name |-> name]

\* NewDocGenError(operation, err)
NewDocGenError(operation, err) == [err EXCEPT !.isNil = FALSE, !.op = operation]

\* a plausible slip: the lookup ignores the case of the name
GetComponentFold(components, componentName) ==
    LET folded == IF componentName = "documenttitle" THEN "DocumentTitle" ELSE componentName
    IN IF folded \in DOMAIN components
       THEN [template |-> components[folded], err |-> NoErr]
       ELSE [template |-> <<>>, err |-> [isNil |-> FALSE, op |-> "",
                                         kind |-> "ComponentNotFound", name |-> componentName]]

\* Engine.GetComponent
GetComponent(components, componentName) ==
    IF componentName \in DOMAIN components
    THEN [template |-> components[componentName], err |-> NoErr]
    ELSE [template |-> <<>>, err |-> ComponentNotFoundError(componentName)]

\* the part of addComponentToBody that cannot fail any more: the child
\* elements of the temporary root are appended to the body
AppendRendered(tree, parsed) ==
    AddChildren(tree, FindBody(tree), ChildElements(parsed, 1))

\* a plausible slip: a component that cannot be added is skipped
AddComponentOrSkip(tree, components, inst, order) ==
    LET got == GetComponent(components, inst.component)
        rendered == RenderComponent(got.template, inst.props, order)
        parsed == ParseXML(<<Open("temp")>> \o rendered \o <<Close("temp")>>)
    IN IF got.err.isNil /\ parsed.ok
       THEN [err |-> NoErr, tree |-> AppendRendered(tree, parsed.tree)]
       ELSE [err |-> NoErr, tree |-> tree]

\* Engine.addComponentToBody(body, componentInstance); order is the iteration
\* order of the props map inside RenderComponent
AddComponentToBody(tree, components, inst, order) ==
    LET got == GetComponent(components, inst.component)
        rendered == RenderComponent(got.template, inst.props, order)
        parsed == ParseXML(<<Open("temp")>> \o rendered \o <<Close("temp")>>)
    IN IF ~got.err.isNil THEN [err |-> got.err, tree |-> tree]
       ELSE IF ~parsed.ok THEN [err |-> ParseError(inst.component), tree |-> tree]
       ELSE [err |-> NoErr, tree |-> AppendRendered(tree, parsed.tree)]

-----------------------------------------------------------------------------
(* Plan validator: the rules of assets/schemas/rules.cue *)

AllComponentNames ==
    {"DocumentCategoryTitle", "DocumentTitle", "DocumentSubject", "TestBlock", "AuthorBlock"}

Digits == {"0", "1", "2", "3", "4", "5", "6", "7", "8", "9"}
Upper == {"A", "B", "C", "D", "E", "F", "G", "H", "I", "J", "K", "L", "M",
          "N", "O", "P", "Q", "R", "S", "T", "U", "V", "W", "X", "Y", "Z"}

\* string & !=""
NonEmptyString(v) == v.t = "str" /\ v.s # <<>>

IsString(v) == v.t = "str"

\* =~"^DOC-\\d{4,}, Rev [A-Z]$"
MatchesSubject(s) ==
    /\ Len(s) >= 15
    /\ SubSeq(s, 1, 4) = <<"D", "O", "C", "-">>
    /\ \A i \in 5..(Len(s) - 7) : s[i] \in Digits
    /\ SubSeq(s, Len(s) - 6, Len(s) - 1) = <<",", " ", "R", "e", "v", " ">>
    /\ s[Len(s)] \in Upper

\* =~"^\\d{1,2}/\\d{1,2}/\\d{4}$"
MatchesDate(s) ==
    \E a \in 1..2, b \in 1..2 :
        /\ Len(s) = a + b + 6
        /\ \A i \in 1..a : s[i] \in Digits
        /\ s[a + 1] = "/"
        /\ \A i \in (a + 2)..(a + 1 + b) : s[i] \in Digits
        /\ s[a + b + 2] = "/"
        /\ \A i \in (a + b + 3)..(a + b + 6) : s[i] \in Digits

\* "PASS" | "FAIL" | "INCOMPLETE"
IsTestResult(v) ==
    /\ v.t = "str"
    /\ v.s \in {<<"P", "A", "S", "S">>, <<"F", "A", "I", "L">>,
                <<"I", "N", "C", "O", "M", "P", "L", "E", "T", "E">>}

\* the props a component must have, in the order of rules.cue
RequiredProps(component) ==
    CASE component = "DocumentCategoryTitle" -> <<"category_title">>
      [] component = "DocumentTitle" -> <<"document_title">>
      [] component = "DocumentSubject" -> <<"document_subject">>
      [] component = "TestBlock" ->
            <<"tester_name", "test_date", "serial_number", "test_result", "additional_info">>
      [] component = "AuthorBlock" ->
            <<"author_name", "company_name", "address_line1", "city_state_zip", "phone", "website">>
      [] OTHER -> <<>>

\* the props a component may have (address_line2?: string, fax?: string)
OptionalProps(component) ==
    IF component = "AuthorBlock" THEN <<"address_line2", "fax">> ELSE <<>>

\* a plausible slip: every prop is only asked to be a non-empty string
PropRuleNonEmpty(name, v) == v.t = "str" /\ v.s # <<>>

\* the constraint rules.cue puts on the value of a prop
PropRule(name, v) ==
    CASE name = "document_subject" -> IsString(v) /\ MatchesSubject(v.s)
      [] name = "test_date" -> IsString(v) /\ MatchesDate(v.s)
      [] name = "test_result" -> IsTestResult(v)
      [] name \in {"additional_info", "address_line2", "fax"} -> IsString(v)
      [] OTHER -> NonEmptyString(v)

\* strings.Fields: the maximal runs of non-space symbols of a text
RECURSIVE FieldsFrom(_, _, _)
FieldsFrom(s, i, cur) ==
    IF i > Len(s) THEN (IF cur = <<>> THEN <<>> ELSE <<cur>>)
    ELSE IF s[i] = " "
         THEN (IF cur = <<>> THEN <<>> ELSE <<cur>>) \o FieldsFrom(s, i + 1, <<>>)
    ELSE FieldsFrom(s, i + 1, Append(cur, s[i]))

Fields(s) == FieldsFrom(s, 1, <<>>)

\* the text CUE prints for a value in an error message
ValueText(v) == IF v.t = "str" THEN <<QUOT>> \o v.s \o <<QUOT>> ELSE Sprintv(v)

\* one error of the rule check: the path of the field (its selectors) and the
\* message, as its whitespace-separated fields
CueError(path, msg) == [path |-> path, msg |-> msg]

\* the errors of unifying body[i] with #ComponentInstance and validating the
\* result as concrete: a component outside #AllComponentNames, a required
\* prop that is absent (incomplete value), a prop whose value breaks its
\* constraint.  CUE reports every failing field, and may report a field more
\* than once; one error per failing field is kept here.
InstanceErrors(inst, i) ==
    IF inst.component \notin AllComponentNames
    THEN <<CueError(<<"body", ToString(i - 1), "component">>,
                    <<<<"conflicting">>, <<"values">>, <<QUOT, inst.component, QUOT>>>>)>>
    ELSE LET req == RequiredProps(inst.component)
             opt == OptionalProps(inst.component)
             at(key) == <<"body", ToString(i - 1), "props", key>>
             broken(key) == CueError(at(key), <<<<"invalid">>, <<"value">>>>
                                \o Fields(ValueText(inst.props[<<key>>])))
         IN Flatten([k \in 1..Len(req) |->
                IF <<req[k]>> \notin DOMAIN inst.props
                THEN <<CueError(at(req[k]), <<<<"incomplete">>, <<"value">>, <<"string">>>>)>>
                ELSE IF PropRule(req[k], inst.props[<<req[k]>>]) THEN <<>>
                ELSE <<broken(req[k])>>])
            \o Flatten([k \in 1..Len(opt) |->
                IF <<opt[k]>> \in DOMAIN inst.props /\ ~PropRule(opt[k], inst.props[<<opt[k]>>])
                THEN <<broken(opt[k])>>
                ELSE <<>>])

\* schema.LookupPath("#DocumentPlan").Unify(planValue).Validate(cue.Concrete(true)):
\* the error list, empty for nil.  #DocumentPlan asks of body only that it is
\* a list of #ComponentInstance
UnifyAndValidate(planData) ==
    Flatten([i \in 1..Len(planData.body) |-> InstanceErrors(planData.body[i], i)])

\* the selectors of a path joined with "."
RECURSIVE JoinPath(_)
JoinPath(path) ==
    IF path = <<>> THEN <<>>
    ELSE IF Len(path) = 1 THEN <<path[1]>>
    ELSE <<path[1], ".">> \o JoinPath(Tail(path))

\* err.Error() of a CUE error, as its whitespace-separated fields: the path
\* followed by a colon, then the message
ErrorFields(e) ==
    (IF e.path = <<>> THEN <<>> ELSE <<JoinPath(e.path) \o <<":">>>>) \o e.msg

\* strings.Trim(part, "():,;")
RECURSIVE Trim(_)
Trim(part) ==
    IF part = <<>> THEN <<>>
    ELSE IF Head(part) \in {"(", ")", ":", ",", ";"} THEN Trim(Tail(part))
    ELSE IF part[Len(part)] \in {"(", ")", ":", ",", ";"}
         THEN Trim(SubSeq(part, 1, Len(part) - 1))
    ELSE part

Has(field, c) == \E k \in 1..Len(field) : field[k] = c

\* a plausible slip: the path is not looked for in the message
ExtractPathRoot(e) == <<"root">>

\* extractPath: the first field of the message with a "." in it, trimmed; else
\* the first with "[" and "]"; else "root"
ExtractPath(e) ==
    LET fields == ErrorFields(e)
        dotted == {k \in 1..Len(fields) : Has(fields[k], ".") /\ Len(Trim(fields[k])) > 1}
        indexed == {k \in 1..Len(fields) :
                       Has(fields[k], "[") /\ Has(fields[k], "]") /\ Len(Trim(fields[k])) > 1}
    IN IF dotted # {} THEN Trim(fields[Min(dotted)])
       ELSE IF indexed # {} THEN Trim(fields[Min(indexed)])
       ELSE <<"root">>

\* the number of bytes of a selector
ByteLen(c) ==
    CASE c \in {".", ":"} \cup Digits -> 1
      [] c = "fax" -> 3
      [] c = "body" -> 4
      [] c \in {"props", "phone"} -> 5
      [] c = "website" -> 7
      [] c \in {"component", "test_date"} -> 9
      [] c \in {"author_name", "tester_name", "test_result"} -> 11
      [] c = "company_name" -> 12
      [] c \in {"address_line1", "address_line2", "serial_number"} -> 13
      [] c \in {"category_title", "document_title", "city_state_zip"} -> 14
      [] c = "additional_info" -> 15
      [] c = "document_subject" -> 16
      [] OTHER -> 1

RECURSIVE SumLen(_)
SumLen(field) == IF field = <<>> THEN 0 ELSE ByteLen(Head(field)) + SumLen(Tail(field))

\* strings.ReplaceAll of the two CUE phrases, on the words of the message
RECURSIVE CleanWords(_)
CleanWords(fields) ==
    IF fields = <<>> THEN <<>>
    ELSE IF Len(fields) >= 2 /\ fields[1] = <<"conflicting">> /\ fields[2] = <<"values">>
         THEN <<<<"validation">>, <<"failed", ":">>>> \o CleanWords(Tail(Tail(fields)))
    ELSE IF Len(fields) >= 2 /\ fields[1] = <<"incomplete">> /\ fields[2] = <<"value">>
         THEN <<<<"missing">>, <<"required">>, <<"value">>>> \o CleanWords(Tail(Tail(fields)))
    ELSE <<Head(fields)>> \o CleanWords(Tail(fields))

\* extractMessage: the phrases replaced, and what comes before the first colon
\* cut off when that colon is within the first 20 bytes
ExtractMessage(e) ==
    LET fields == CleanWords(ErrorFields(e))
    IN IF e.path # <<>> /\ SumLen(JoinPath(e.path)) < 20 THEN Tail(fields) ELSE fields

\* the error value unified.Validate returns: nil, a CUE error (errors.Error,
\* with the list errors.Errors gives for it), or an error of another type
\* (with its text)
NilCheck == [isNil |-> TRUE, isCue |-> FALSE, errs |-> <<>>, text |-> <<>>]
CueErr(errs) == [isNil |-> FALSE, isCue |-> TRUE, errs |-> errs, text |-> <<>>]
PlainErr(text) == [isNil |-> FALSE, isCue |-> FALSE, errs |-> <<>>, text |-> text]

\* a plausible slip: only the first error of the list is converted
ExtractFirstError(err) ==
    <<[path |-> ExtractPath(err.errs[1]), message |-> ExtractMessage(err.errs[1])]>>

\* a plausible slip: the type assertion has no else branch
ExtractNoFallback(err) ==
    [k \in 1..Len(err.errs) |->
        [path |-> ExtractPath(err.errs[k]), message |-> ExtractMessage(err.errs[k])]]

\* extractValidationErrors: one ValidationError per error of the list of a
\* CUE error; for an error of another type, one with the path "unknown"
ExtractValidationErrors(err) ==
    IF err.isCue
    THEN [k \in 1..Len(err.errs) |->
             [path |-> ExtractPath(err.errs[k]), message |-> ExtractMessage(err.errs[k])]]
    ELSE <<[path |-> <<"unknown">>, message |-> err.text]>>

\* ctx.Encode(plan).Err() is nil: every value of the plan is one CUE can encode
Encodes(planData) ==
    \A i \in 1..Len(planData.body) :
        \A k \in DOMAIN planData.body[i].props : planData.body[i].props[k].t # "func"

\* what unified.Validate(cue.Concrete(true)) returns for a plan
Check(planData) ==
    LET errs == UnifyAndValidate(planData)
    IN IF errs = <<>> THEN NilCheck ELSE CueErr(errs)

\* Validator.Validate, given what the check of the unified value returns
ValidateWith(planData, checkErr) ==
    IF ~Encodes(planData)
    THEN [Valid |-> FALSE,
          Errors |-> <<[path |-> <<"root">>,
                        message |-> <<<<"failed">>, <<"to">>, <<"encode">>, <<"plan", ":">>>>]>>]
    ELSE IF ~checkErr.isNil
    THEN [Valid |-> FALSE, Errors |-> ExtractValidationErrors(checkErr)]
    ELSE [Valid |-> TRUE, Errors |-> <<>>]

\* a plausible slip: the result says valid and carries the errors found
ValidateLax(planData) ==
    [Valid |-> TRUE, Errors |-> ExtractValidationErrors(CueErr(UnifyAndValidate(planData)))]

\* Validator.Validate / Engine.ValidatePlan
Validate(planData) == ValidateWith(planData, Check(planData))

-----------------------------------------------------------------------------
(* Engine and POST /generate *)

\* the shell the engine is built from: a document with an empty body and a
\* section, and the styles
ShellDocument == <<Open("w:document"), Open("w:body"), Empty("w:sectPr"),
                   Close("w:body"), Close("w:document")>>

ShellFiles == (DocumentXML :> ShellDocument) @@ (StylesXML :> <<"s">>)

\* LoadShell: every entry of the archive read into a buffer of the map
LoadShell(files) ==
    [docx |-> (0 :> [p \in DOMAIN files |-> <<0, p, 0>>]),
     bufs |-> [b \in {<<0, p, 0>> : p \in DOMAIN files} |-> files[b[2]]]]

\* LoadComponents over a directory that holds DocumentTitle.component.xml (two
\* top-level elements), DocumentSubject.component.xml (its paragraph is not
\* closed) and Section.component.xml (a heading with a title, and a
\* placeholder where the author expects the children), and no file for the
\* other component names
Library ==
    ("DocumentTitle" :>
        <<Open("w:p")>> \o Placeholder(<<"document_title">>) \o <<Close("w:p"), Empty("w:p")>>)
    @@ ("DocumentSubject" :> <<Open("w:p")>> \o Placeholder(<<"document_subject">>))
    @@ ("Section" :>
        <<Open("w:p")>> \o Placeholder(<<"title">>) \o Placeholder(<<"children">>)
            \o <<Close("w:p")>>)

Instance(component, key, value) ==
    [component |-> component, props |-> (<<key>> :> Str(value))]

Title(v) == Instance("DocumentTitle", "document_title", v)
Subject(v) == Instance("DocumentSubject", "document_subject", v)
Category(v) == Instance("DocumentCategoryTitle", "category_title", v)
Paragraph(v) == Instance("Paragraph", "text", v)

\* a Section with a title and, under the reserved key children, its nested
\* component instances
Section(v, children) ==
    [component |-> "Section",
     props |-> (<<"title">> :> Str(v)) @@ (<<"children">> :> List(children))]

GoodSubject == <<"D", "O", "C", "-", "1", "2", "3", "4", ",", " ", "R", "e", "v", " ", "A">>

\* the request bodies POST /generate is given
RequestBodies ==
    {[json |-> FALSE, plan |-> [body |-> <<>>]]} \cup
    {[json |-> TRUE, plan |-> [body |-> b]] : b \in
        {<<Title(<<"A">>)>>,
         <<Title(<<"<", "B">>), Title(<<"C", "&">>)>>,
         <<Title(<<"D">>), Subject(GoodSubject)>>,
         <<Category(<<"E">>)>>,
         <<Title(<<>>)>>,
         <<Paragraph(<<"F">>)>>,
         <<>>}}

GoodDate == <<"9", "/", "1", "8", "/", "2", "0", "2", "4">>
Pass == <<"P", "A", "S", "S">>
BadDate == <<"2", "0", "2", "4", "-", "0", "9", "-", "1", "8">>
Maybe == <<"M", "A", "Y", "B", "E">>

TestBlock(date, result) ==
    [component |-> "TestBlock",
     props |-> (<<"tester_name">> :> Str(<<"J">>)) @@ (<<"test_date">> :> Str(date))
               @@ (<<"serial_number">> :> Str(<<"S", "N">>))
               @@ (<<"test_result">> :> Str(result))
               @@ (<<"additional_info">> :> Str(<<>>))]

AuthorBlock(more) ==
    [component |-> "AuthorBlock",
     props |-> more @@ [k \in {<<"author_name">>, <<"company_name">>, <<"address_line1">>,
                               <<"city_state_zip">>, <<"phone">>, <<"website">>} |-> Str(<<"a">>)]]

\* instances that satisfy the rule of their component
GoodInstances ==
    {Title(<<"A">>),
     Subject(GoodSubject),
     TestBlock(GoodDate, Pass),
     AuthorBlock(<<"fax">> :> Str(<<"1">>)),
     [component |-> "DocumentTitle",
      props |-> (<<"document_title">> :> Str(<<"A">>))
                @@ (<<"children">> :> List(<<Title(<<"G">>)>>))]}

\* instances that break the rule of their component: an empty required
\* string, a value that is no string, a subject and a date that do not match,
\* a result outside the enumeration, a required prop that is absent, an
\* optional prop of the wrong type, a component name outside the enumeration
BadInstances ==
    {Title(<<>>),
     [component |-> "DocumentTitle", props |-> (<<"document_title">> :> Bool(TRUE))],
     Subject(<<"D", "O", "C", "-", "1", "2", "3", "4", ",", " ", "R", "e", "v", ".", " ", "A">>),
     TestBlock(BadDate, Pass),
     TestBlock(GoodDate, Maybe),
     TestBlock(BadDate, Maybe),
     [component |-> "DocumentCategoryTitle", props |-> <<>>],
     AuthorBlock(<<"fax">> :> Bool(TRUE)),
     Paragraph(<<"F">>),
     Instance("documenttitle", "document_title", <<"A">>)}

\* the request bodies POST /validate-plan is given
ValidateBodies ==
    {[json |-> FALSE, plan |-> [body |-> <<>>]]} \cup
    {[json |-> TRUE, plan |-> [body |-> b]] :
        b \in SeqsUpTo(GoodInstances \cup BadInstances, MaxBody)}

\* the plans Engine.Assemble is called with directly (CLI, tests)
DirectInstances ==
    {Title(<<"A">>), Title(<<"<", "B">>), Subject(GoodSubject), Category(<<"E">>),
     Paragraph(<<"F">>), Instance("documenttitle", "document_title", <<"A">>)}

\* plans with instances that carry children, nested children included
ChildrenPlans ==
    {[body |-> b] : b \in
        {<<Section(<<"S">>, <<>>)>>,
         <<Section(<<"S">>, <<Title(<<"G">>)>>)>>,
         <<Title(<<"A">>), Section(<<"S">>, <<Title(<<"G">>), Title(<<"H">>)>>)>>,
         <<Section(<<"S">>, <<Title(<<"G">>)>>), Title(<<"A">>)>>,
         <<Section(<<"S">>, <<Section(<<"T">>, <<Title(<<"G">>)>>)>>), Title(<<"A">>)>>,
         <<Section(<<"S">>, <<Category(<<"E">>)>>)>>}}

DirectPlans == {[body |-> b] : b \in SeqsUpTo(DirectInstances, MaxBody)} \cup ChildrenPlans

NilBytes == [isNil |-> TRUE, zip |-> <<>>]
NoRet == [called |-> FALSE, result |-> NilBytes, err |-> NoErr]
NoResp == [status |-> 0, contentType |-> "", text |-> "", valid |-> TRUE,
           errors |-> <<>>, body |-> <<>>]
NoValidation == [ran |-> FALSE, result |-> [Valid |-> FALSE, Errors |-> <<>>]]
DocxType == "application/vnd.openxmlformats-officedocument.wordprocessingml.document"

\* http.Error(w, text, code)
HttpError(text, code) ==
    [NoResp EXCEPT !.status = code, !.contentType = "text/plain", !.text = text]

\* NewEngine / NewServer, and no request received yet
SrvInit(R, m) ==
    /\ engine = [shell |-> 0, components |-> Library]
    /\ docx = LoadShell(ShellFiles).docx
    /\ bufs = LoadShell(ShellFiles).bufs
    /\ pc = [r \in R |-> "idle"]
    /\ mode = [r \in R |-> m]
    /\ plan = [r \in R |-> [body |-> <<>>]]
    /\ vres = [r \in R |-> NoValidation]
    /\ workingDoc = [r \in R |-> 0]
    /\ doc = [r \in R |-> <<>>]
    /\ idx = [r \in R |-> 0]
    /\ ret = [r \in R |-> NoRet]
    /\ resp = [r \in R |-> NoResp]

\* shell archives LoadShell reads without complaint: the shell of the service,
\* a shell with content in its body,
\* one without word/document.xml, one whose document.xml is not well-formed,
\* and two whose document.xml has no w:body
ThemeXML == "word/theme/theme1.xml"

\* a shell whose body already holds a paragraph with text before its section,
\* and with a theme next to the styles
FilledShell ==
    (DocumentXML :> <<Open("w:document"), Open("w:body"), Open("w:p"), "h", Close("w:p"),
                      Empty("w:sectPr"), Close("w:body"), Close("w:document")>>)
    @@ (StylesXML :> <<"s">>) @@ (ThemeXML :> <<"t">>)

ShellArchives ==
    {ShellFiles, FilledShell,
     (StylesXML :> <<"s">>),
     (DocumentXML :> <<Open("w:document"), Open("w:body"), Close("w:document")>>)
        @@ (StylesXML :> <<"s">>),
     (DocumentXML :> <<Open("w:document"), Close("w:document")>>) @@ (StylesXML :> <<"s">>),
     (DocumentXML :> <<Open("w:document"), Empty("w:p"), Close("w:document")>>)}

\* NewEngine over any of these archives, and one direct caller
ShellsInit ==
    /\ engine = [shell |-> 0, components |-> Library]
    /\ \E files \in ShellArchives :
          /\ docx = LoadShell(files).docx
          /\ bufs = LoadShell(files).bufs
    /\ pc = [r \in {1} |-> "idle"]
    /\ mode = [r \in {1} |-> "direct"]
    /\ plan = [r \in {1} |-> [body |-> <<>>]]
    /\ vres = [r \in {1} |-> NoValidation]
    /\ workingDoc = [r \in {1} |-> 0]
    /\ doc = [r \in {1} |-> <<>>]
    /\ idx = [r \in {1} |-> 0]
    /\ ret = [r \in {1} |-> NoRet]
    /\ resp = [r \in {1} |-> NoResp]

\* a plausible slip (the handler as it was before validation was wired in):
\* the plan goes to Assemble whatever the validator said
HandlerNeverRejects(validationResult) == FALSE

\* if !validationResult.Valid { ... return }
HandlerRejects(validationResult) == ~validationResult.Valid

\* Server.GenerateHandler up to the call of Engine.Assemble: the body is
\* parsed, the plan is validated, and an invalid plan is answered with 400
GenerateHandlerOn(r, bodies) ==
    /\ pc[r] = "idle"
    /\ \E rb \in bodies :
          IF ~rb.json
          THEN /\ resp' = [resp EXCEPT ![r] = HttpError("Invalid JSON format", 400)]
               /\ pc' = [pc EXCEPT ![r] = "done"]
               /\ UNCHANGED <<plan, vres>>
          ELSE /\ plan' = [plan EXCEPT ![r] = rb.plan]
               /\ vres' = [vres EXCEPT ![r] = [ran |-> TRUE, result |-> Validate(rb.plan)]]
               /\ IF HandlerRejects(Validate(rb.plan))
                  THEN /\ resp' = [resp EXCEPT ![r] =
                              [NoResp EXCEPT !.status = 400,
                                             !.contentType = "application/json",
                                             !.text = "invalid",
                                             !.valid = FALSE,
                                             !.errors = Validate(rb.plan).Errors]]
                       /\ pc' = [pc EXCEPT ![r] = "done"]
                  ELSE /\ pc' = [pc EXCEPT ![r] = "assemble"]
                       /\ UNCHANGED resp
    /\ UNCHANGED <<engine, docx, bufs, mode, workingDoc, doc, idx, ret>>
    /\ UNCHANGED <<renderVars, cloneVars, boot>>

\* POST /generate with one of the request bodies of the model
GenerateHandler(r) == mode[r] = "http" /\ GenerateHandlerOn(r, RequestBodies)

\* the template of AuthorBlock.component.xml, with the placeholders of the
\* props its documentation lists
AuthorBlockTemplate ==
    <<Open("w:p")>> \o Placeholder(<<"author_name">>) \o Placeholder(<<"company_name">>)
        \o Placeholder(<<"address_line1">>) \o Placeholder(<<"address_line2">>)
        \o <<Close("w:p"), Open("w:p")>>
        \o Placeholder(<<"city_state_zip">>) \o Placeholder(<<"phone">>)
        \o Placeholder(<<"fax">>) \o Placeholder(<<"website">>) \o <<Close("w:p")>>

\* the library of a components directory that also holds AuthorBlock
DocumentedLibrary == ("AuthorBlock" :> AuthorBlockTemplate) @@ Library

\* request bodies over the documented components: plans of one or two
\* instances, among them an AuthorBlock with the props rules.cue requires
DocumentedBodies ==
    {[json |-> TRUE, plan |-> [body |-> b]] : b \in
        SeqsUpTo({Title(<<"A">>), Title(<<"<", "B">>), Category(<<"E">>),
                  Subject(GoodSubject), AuthorBlock(<<>>)}, 2)}

\* POST /generate with a plan over the documented components
GenerateDocumented(r) == mode[r] = "http" /\ GenerateHandlerOn(r, DocumentedBodies)


\* a caller other than the handler (the CLI, a test) calls Engine.Assemble
DirectAssemble(r) ==
    /\ pc[r] = "idle" /\ mode[r] = "direct"
    /\ \E p \in DirectPlans : plan' = [plan EXCEPT ![r] = p]
    /\ pc' = [pc EXCEPT ![r] = "assemble"]
    /\ UNCHANGED <<engine, docx, bufs, mode, vres, workingDoc, doc, idx, ret, resp>>
    /\ UNCHANGED <<renderVars, cloneVars, boot>>

AssemblyError(r, kind, name) ==
    [called |-> TRUE, result |-> NilBytes,
     err |-> NewDocGenError("assembly",
                [isNil |-> FALSE, op |-> "", kind |-> kind, name |-> name])]

\* AssembleDocument, first part: the shell is cloned, word/document.xml is
\* looked up in the working copy and parsed, and the body is found
AssembleBegin(r) ==
    /\ pc[r] = "assemble"
    /\ LET c == Clone([docx |-> docx, bufs |-> bufs], engine.shell, r)
           files == View(c.heap, c.ref)
           parsed == ParseXML(files[DocumentXML])
       IN /\ docx' = c.heap.docx
          /\ bufs' = c.heap.bufs
          /\ workingDoc' = [workingDoc EXCEPT ![r] = c.ref]
          /\ IF DocumentXML \notin DOMAIN files
             THEN /\ ret' = [ret EXCEPT ![r] = AssemblyError(r, "no document.xml", "")]
                  /\ pc' = [pc EXCEPT ![r] = "returned"]
                  /\ UNCHANGED <<doc, idx>>
             ELSE IF ~parsed.ok
             THEN /\ ret' = [ret EXCEPT ![r] = AssemblyError(r, "shell parse", "")]
                  /\ pc' = [pc EXCEPT ![r] = "returned"]
                  /\ UNCHANGED <<doc, idx>>
             ELSE IF FindBody(parsed.tree) = 0
             THEN /\ ret' = [ret EXCEPT ![r] = AssemblyError(r, "no body", "")]
                  /\ pc' = [pc EXCEPT ![r] = "returned"]
                  /\ UNCHANGED <<doc, idx>>
             ELSE /\ doc' = [doc EXCEPT ![r] = parsed.tree]
                  /\ idx' = [idx EXCEPT ![r] = 1]
                  /\ pc' = [pc EXCEPT ![r] = "walk"]
                  /\ UNCHANGED ret
    /\ UNCHANGED <<engine, mode, plan, vres, resp>>
    /\ UNCHANGED <<renderVars, cloneVars, boot>>

\* AssembleDocument, one turn of the loop over plan.Body
AddComponent(r) ==
    /\ pc[r] = "walk" /\ idx[r] <= Len(plan[r].body)
    /\ \E order \in Perms(DOMAIN plan[r].body[idx[r]].props) :
          LET inst == plan[r].body[idx[r]]
              added == AddComponentToBody(doc[r], engine.components, inst, order)
          IN IF added.err.isNil
             THEN /\ doc' = [doc EXCEPT ![r] = added.tree]
                  /\ idx' = [idx EXCEPT ![r] = idx[r] + 1]
                  /\ UNCHANGED <<pc, ret>>
             ELSE /\ ret' = [ret EXCEPT ![r] =
                        [called |-> TRUE, result |-> NilBytes,
                         err |-> NewDocGenError("assembly",
                                    [added.err EXCEPT !.name = inst.component])]]
                  /\ pc' = [pc EXCEPT ![r] = "returned"]
                  /\ UNCHANGED <<doc, idx>>
    /\ UNCHANGED <<engine, docx, bufs, mode, plan, vres, workingDoc, resp>>
    /\ UNCHANGED <<renderVars, cloneVars, boot>>

\* AssembleDocument, last part: the tree is written, the bytes replace
\* word/document.xml in the working copy, and the working copy is zipped
AssembleFinish(r) ==
    /\ pc[r] = "walk" /\ idx[r] > Len(plan[r].body)
    /\ LET w == workingDoc[r]
           modified == <<r, DocumentXML, 1>>
       IN /\ docx' = [docx EXCEPT ![w] = (DocumentXML :> modified) @@ docx[w]]
          /\ bufs' = (modified :> WriteXML(doc[r])) @@ bufs
          /\ \E order \in ToBytesOrders(DOMAIN docx'[w]) :
                ret' = [ret EXCEPT ![r] =
                    [called |-> TRUE,
                     result |-> [isNil |-> FALSE,
                                 zip |-> ToBytes(View([docx |-> docx', bufs |-> bufs'], w), order)],
                     err |-> NoErr]]
    /\ pc' = [pc EXCEPT ![r] = "returned"]
    /\ UNCHANGED <<engine, mode, plan, vres, workingDoc, doc, idx, resp>>
    /\ UNCHANGED <<renderVars, cloneVars, boot>>

\* a plausible slip: the error of Assemble is logged and the handler goes on
\* to write the document
HandlerRespondNoReturn(r) ==
    /\ pc[r] = "returned" /\ mode[r] = "http"
    /\ resp' = [resp EXCEPT ![r] =
          [NoResp EXCEPT !.status = 200, !.contentType = DocxType,
                         !.body = ret[r].result.zip]]
    /\ pc' = [pc EXCEPT ![r] = "done"]
    /\ UNCHANGED <<engine, docx, bufs, mode, plan, vres, workingDoc, doc, idx, ret>>
    /\ UNCHANGED <<renderVars, cloneVars, boot>>

\* Server.GenerateHandler after Engine.Assemble returned
HandlerRespond(r) ==
    /\ pc[r] = "returned" /\ mode[r] = "http"
    /\ resp' = [resp EXCEPT ![r] =
          IF ~ret[r].err.isNil
          THEN HttpError("Failed to generate document", 500)
          ELSE [NoResp EXCEPT !.status = 200, !.contentType = DocxType,
                              !.body = ret[r].result.zip]]
    /\ pc' = [pc EXCEPT ![r] = "done"]
    /\ UNCHANGED <<engine, docx, bufs, mode, plan, vres, workingDoc, doc, idx, ret>>
    /\ UNCHANGED <<renderVars, cloneVars, boot>>

\* Server.ValidatePlanHandler (POST /validate-plan): the body is parsed, the
\* plan is validated, and the result is answered as JSON, 200 or 400
ValidatePlanHandler(r) ==
    /\ pc[r] = "idle" /\ mode[r] = "validate"
    /\ \E rb \in ValidateBodies :
          IF ~rb.json
          THEN /\ resp' = [resp EXCEPT ![r] = HttpError("Invalid JSON format", 400)]
               /\ UNCHANGED <<plan, vres>>
          ELSE /\ plan' = [plan EXCEPT ![r] = rb.plan]
               /\ vres' = [vres EXCEPT ![r] = [ran |-> TRUE, result |-> Validate(rb.plan)]]
               /\ resp' = [resp EXCEPT ![r] =
                     IF Validate(rb.plan).Valid
                     THEN [NoResp EXCEPT !.status = 200, !.contentType = "application/json",
                                         !.text = "valid", !.valid = TRUE]
                     ELSE [NoResp EXCEPT !.status = 400, !.contentType = "application/json",
                                         !.text = "invalid", !.valid = FALSE,
                                         !.errors = Validate(rb.plan).Errors]]
    /\ pc' = [pc EXCEPT ![r] = "done"]
    /\ UNCHANGED <<engine, docx, bufs, mode, workingDoc, doc, idx, ret>>
    /\ UNCHANGED <<renderVars, cloneVars, boot>>

\* one POST /validate-plan request
ValidateNext == ValidatePlanHandler(1)

\* the plans a caller hands to Validator.Validate itself (the tests of the
\* validator do): any Go map, also one holding a value CUE cannot encode
ValidatorInstances ==
    {Title(<<"A">>), Title(<<>>), Subject(GoodSubject), Paragraph(<<"F">>),
     [component |-> "DocumentTitle", props |-> (<<"document_title">> :> Func)]}

ValidatorPlans == {[body |-> b] : b \in SeqsUpTo(ValidatorInstances, MaxBody)}

\* errors of a type other than errors.Error that the check could hand back
PlainErrors == {PlainErr(<<<<"internal">>, <<"error">>>>)}

\* Validator.Validate called directly: the plan is encoded and, when that
\* works, unified and checked; the check answers as CUE does for the plan,
\* or with an error of another type
ValidateCall(r) ==
    /\ pc[r] = "idle" /\ mode[r] = "validator"
    /\ \E planData \in ValidatorPlans :
          \E checkErr \in (IF Encodes(planData)
                           THEN {Check(planData)} \cup PlainErrors
                           ELSE {NilCheck}) :
             /\ plan' = [plan EXCEPT ![r] = planData]
             /\ vres' = [vres EXCEPT ![r] = [ran |-> TRUE,
                                              result |-> ValidateWith(planData, checkErr),
                                              check |-> checkErr]]
    /\ pc' = [pc EXCEPT ![r] = "done"]
    /\ UNCHANGED <<engine, docx, bufs, mode, workingDoc, doc, idx, ret, resp>>
    /\ UNCHANGED <<renderVars, cloneVars, boot>>

\* one call of Validator.Validate
ValidatorNext == ValidateCall(1)

Requests == 1..NumRequests

\* the requests of the server are handled concurrently
Next ==
    \E r \in Requests :
        \/ GenerateHandler(r)
        \/ AssembleBegin(r)
        \/ AddComponent(r)
        \/ AssembleFinish(r)
        \/ HandlerRespond(r)

\* one direct call of Engine.Assemble
AssembleNext ==
    \/ DirectAssemble(1)
    \/ AssembleBegin(1)
    \/ AddComponent(1)
    \/ AssembleFinish(1)

-----------------------------------------------------------------------------
(* Startup: runServer, NewServer, NewEngine *)

\* what is at DOCGEN_SHELL_PATH: nothing, a file that is no zip archive, an
\* archive with an entry that cannot be read, or an archive with its entries
ShellAt(kind, files) == [kind |-> kind, files |-> files]

StartShells ==
    {ShellAt("missing", <<>>), ShellAt("notzip", <<>>), ShellAt("badentry", ShellFiles)}
    \cup {ShellAt("zip", files) : files \in ShellArchives}

\* one visit of filepath.Walk under the components directory: the directory
\* and the name of the entry (its base and its extension), whether it is a
\* directory, whether the walk reports an error for it, whether the file can
\* be read, and its content
Visit(dir, base, ext, content) ==
    [dir |-> dir, base |-> base, ext |-> ext, isDir |-> FALSE, walkErr |-> FALSE,
     readable |-> TRUE, content |-> content]

ComponentExt == ".component.xml"

TitleTemplate == Library["DocumentTitle"]
OtherTitleTemplate == <<Open("w:p")>> \o Placeholder(<<"document_title">>) \o <<Close("w:p")>>

\* the walks of the model, each in the order filepath.Walk visits (lexical)
StartWalks ==
    {<<>>,
     <<Visit("core", "DocumentTitle", ComponentExt, TitleTemplate),
       Visit("core", "README", ".md", <<"r">>)>>,
     <<Visit("a", "DocumentTitle", ComponentExt, TitleTemplate),
       Visit("b", "DocumentTitle", ComponentExt, OtherTitleTemplate)>>,
     <<Visit("a", "DocumentTitle", ComponentExt, OtherTitleTemplate),
       Visit("b", "DocumentSubject", ComponentExt, Library["DocumentSubject"]),
       Visit("c", "DocumentTitle", ComponentExt, TitleTemplate)>>,
     <<[Visit("", "DocumentTitle", ComponentExt, <<>>) EXCEPT !.isDir = TRUE],
       Visit("DocumentTitle.component.xml", "DocumentTitle", ComponentExt, TitleTemplate)>>,
     <<Visit("a", "DocumentTitle", ComponentExt, TitleTemplate),
       [Visit("b", "DocumentTitle", ComponentExt, OtherTitleTemplate) EXCEPT !.readable = FALSE]>>,
     <<Visit("a", "DocumentTitle", ComponentExt, TitleTemplate),
       [Visit("", "b", "", <<>>) EXCEPT !.isDir = TRUE, !.walkErr = TRUE]>>,
     <<Visit("a", "DocumentTitle", ComponentExt, TitleTemplate),
       [Visit("a", "notes", ".txt", <<>>) EXCEPT !.readable = FALSE]>>}

\* what is at DOCGEN_COMPONENTS_DIR: nothing, or a directory with its walk
StartComponents == {[missing |-> TRUE, walk |-> <<>>]}
                   \cup {[missing |-> FALSE, walk |-> w] : w \in StartWalks}

\* what is at DOCGEN_SCHEMA_PATH: nothing, a file CUE cannot load or build,
\* or rules.cue
StartSchemas == {"missing", "broken", "rules.cue"}

\* a plausible slip: a name already in the map is not overwritten
RECURSIVE WalkKeepFirst(_, _, _)
WalkKeepFirst(walk, k, components) ==
    IF k > Len(walk) THEN [err |-> FALSE, components |-> components]
    ELSE IF walk[k].walkErr THEN [err |-> TRUE, components |-> <<>>]
    ELSE IF ~walk[k].isDir /\ walk[k].ext = ComponentExt
    THEN IF ~walk[k].readable THEN [err |-> TRUE, components |-> <<>>]
         ELSE WalkKeepFirst(walk, k + 1, components @@ (walk[k].base :> walk[k].content))
    ELSE WalkKeepFirst(walk, k + 1, components)

LoadComponentsKeepFirst(walk) == WalkKeepFirst(walk, 1, <<>>)

\* the callback of filepath.Walk in LoadComponents, from visit k on: a walk
\* error or a component file that cannot be read ends the walk with an error;
\* a file named <base>.component.xml sets components[base] to its content
RECURSIVE WalkFrom(_, _, _)
WalkFrom(walk, k, components) ==
    IF k > Len(walk) THEN [err |-> FALSE, components |-> components]
    ELSE IF walk[k].walkErr THEN [err |-> TRUE, components |-> <<>>]
    ELSE IF ~walk[k].isDir /\ walk[k].ext = ComponentExt
    THEN IF ~walk[k].readable THEN [err |-> TRUE, components |-> <<>>]
         ELSE WalkFrom(walk, k + 1, (walk[k].base :> walk[k].content) @@ components)
    ELSE WalkFrom(walk, k + 1, components)

\* LoadComponents: the map the walk leaves, or an error
LoadComponents(walk) == WalkFrom(walk, 1, <<>>)

\* a plausible slip: the error of LoadShell is not looked at
LoadShellNeverFails(shell) == FALSE

\* LoadShell returns an error: zip.OpenReader fails, or an entry cannot be
\* opened or read
LoadShellFails(shell) == shell.kind \in {"notzip", "badentry"}

\* the nil *Engine: no shell, no components
NoEngine == [shell |-> -1, components |-> <<>>]

\* runServer before an engine exists
NoBoot(shell, components, schema) ==
    [pc |-> "start", shell |-> shell, dir |-> components, schema |-> schema,
     components |-> <<>>]

\* LoadConfig: a path that does not exist ends the process (log.Fatalf)
LoadConfig ==
    /\ boot.pc = "start"
    /\ boot' = [boot EXCEPT !.pc =
          IF boot.shell.kind = "missing" \/ boot.dir.missing \/ boot.schema = "missing"
          THEN "fatal" ELSE "config"]
    /\ UNCHANGED <<srvVars, renderVars, cloneVars>>

\* NewEngine, first step: LoadShell
NewEngineShell ==
    /\ boot.pc = "config"
    /\ IF LoadShellFails(boot.shell)
       THEN /\ boot' = [boot EXCEPT !.pc = "fatal"]
            /\ UNCHANGED <<docx, bufs>>
       ELSE /\ boot' = [boot EXCEPT !.pc = "shell"]
            /\ docx' = LoadShell(boot.shell.files).docx
            /\ bufs' = LoadShell(boot.shell.files).bufs
    /\ UNCHANGED <<engine, pc, mode, plan, vres, workingDoc, doc, idx, ret, resp>>
    /\ UNCHANGED <<renderVars, cloneVars>>

\* NewEngine, second step: LoadComponents
NewEngineComponents ==
    /\ boot.pc = "shell"
    /\ LET loaded == LoadComponents(boot.dir.walk)
       IN boot' = IF loaded.err
                  THEN [boot EXCEPT !.pc = "fatal"]
                  ELSE [boot EXCEPT !.pc = "components", !.components = loaded.components]
    /\ UNCHANGED <<srvVars, renderVars, cloneVars>>

\* NewEngine, third step: validator.New, and the engine is returned to
\* NewServer, whose server runServer starts to listen with
NewEngineValidator ==
    /\ boot.pc = "components"
    /\ IF boot.schema # "rules.cue"
       THEN /\ boot' = [boot EXCEPT !.pc = "fatal"]
            /\ UNCHANGED engine
       ELSE /\ boot' = [boot EXCEPT !.pc = "serving"]
            /\ engine' = [shell |-> 0, components |-> boot.components]
    /\ UNCHANGED <<docx, bufs, pc, mode, plan, vres, workingDoc, doc, idx, ret, resp>>
    /\ UNCHANGED <<renderVars, cloneVars>>

\* the listening server hands a request to its handler
Serve(r) ==
    /\ boot.pc = "serving"
    /\ pc[r] = "waiting"
    /\ pc' = [pc EXCEPT ![r] = "idle"]
    /\ UNCHANGED <<engine, docx, bufs, mode, plan, vres, workingDoc, doc, idx, ret, resp>>
    /\ UNCHANGED <<renderVars, cloneVars, boot>>

\* one POST /generate request over the documented components
DocumentedNext ==
    \/ GenerateDocumented(1)
    \/ AssembleBegin(1)
    \/ AddComponent(1)
    \/ AssembleFinish(1)
    \/ HandlerRespond(1)

\* NewEngine over a components directory that also holds AuthorBlock
DocumentedInit ==
    /\ engine = [shell |-> 0, components |-> DocumentedLibrary]
    /\ docx = LoadShell(ShellFiles).docx
    /\ bufs = LoadShell(ShellFiles).bufs
    /\ pc = [r \in {1} |-> "idle"]
    /\ mode = [r \in {1} |-> "http"]
    /\ plan = [r \in {1} |-> [body |-> <<>>]]
    /\ vres = [r \in {1} |-> NoValidation]
    /\ workingDoc = [r \in {1} |-> 0]
    /\ doc = [r \in {1} |-> <<>>]
    /\ idx = [r \in {1} |-> 0]
    /\ ret = [r \in {1} |-> NoRet]
    /\ resp = [r \in {1} |-> NoResp]

\* the process from its start to the answer of one POST /generate request
StartNext ==
    \/ LoadConfig
    \/ NewEngineShell
    \/ NewEngineComponents
    \/ NewEngineValidator
    \/ Serve(1)
    \/ GenerateHandler(1)
    \/ AssembleBegin(1)
    \/ AddComponent(1)
    \/ AssembleFinish(1)
    \/ HandlerRespond(1)

\* the process starts over any of the shells, directories and schemas, with
\* one request waiting for the server
StartInit ==
    /\ \E shell \in StartShells, components \in StartComponents, schema \in StartSchemas :
          boot = NoBoot(shell, components, schema)
    /\ engine = NoEngine /\ docx = <<>> /\ bufs = <<>>
    /\ pc = [r \in {1} |-> "waiting"]
    /\ mode = [r \in {1} |-> "http"]
    /\ plan = [r \in {1} |-> [body |-> <<>>]]
    /\ vres = [r \in {1} |-> NoValidation]
    /\ workingDoc = [r \in {1} |-> 0]
    /\ doc = [r \in {1} |-> <<>>]
    /\ idx = [r \in {1} |-> 0]
    /\ ret = [r \in {1} |-> NoRet]
    /\ resp = [r \in {1} |-> NoResp]

-----------------------------------------------------------------------------
(* Renderer harness: RenderComponent applied to bounded templates and props *)

KeyX == <<"x">>
KeyY == <<"y">>
HarnessKeys == {KeyX, KeyY}

Spaces(n) == [i \in 1..n |-> " "]

\* a template is written as pieces: literal text, or a placeholder for a key
\* with ws spaces on each side of the key inside the braces
Text(s) == [kind |-> "text", key |-> <<>>, ws |-> 0, s |-> s]
Hole(key, ws) == [kind |-> "hole", key |-> key, ws |-> ws, s |-> <<>>]

PieceText(p) ==
    IF p.kind = "hole"
    THEN <<"{", "{">> \o Spaces(p.ws) \o p.key \o Spaces(p.ws) \o <<"}", "}">>
    ELSE p.s

TemplateOf(pieces) == Flatten([i \in 1..Len(pieces) |-> PieceText(pieces[i])])

HarnessPieces ==
    {Hole(KeyX, 0), Hole(KeyX, 1), Hole(KeyX, 2), Hole(KeyY, 1), Text(<<"a">>)}

HarnessValues ==
    {Str(<<"<", "a", "&", "b", ">">>), Str(Placeholder(KeyY)), Str(<<APOS, QUOT>>),
     Str(<<"v">>), Nil}

HarnessProps == UNION {[K -> HarnessValues] : K \in SUBSET HarnessKeys}

RenderInit ==
    /\ rPieces \in SeqsUpTo(HarnessPieces, MaxPieces)
    /\ rProps \in HarnessProps
    /\ rOut = <<>>
    /\ rPc = "ready"

\* result, err := RenderComponent(template, props)
RenderCall ==
    /\ rPc = "ready"
    /\ \E order \in Perms(DOMAIN rProps) :
          rOut' = RenderComponent(TemplateOf(rPieces), rProps, order)
    /\ rPc' = "done"
    /\ UNCHANGED <<rPieces, rProps>>
    /\ UNCHANGED <<srvVars, cloneVars, boot>>

RenderNext == RenderCall

\* a key (any JSON string is one) whose placeholder, "{{ x }}z }}", starts with
\* the placeholder of the key x
KeyXTail == <<"x", " ", "}", "}", "z">>

\* templates and props over the keys x and "x }}z"
PrefixPieces == {Hole(KeyX, 1), Hole(KeyXTail, 1), Text(<<"a">>)}

PrefixProps ==
    UNION {[K -> {Str(<<"v">>), Str(<<"w">>), Str(<<"<">>)}] : K \in SUBSET {KeyX, KeyXTail}}

RenderPrefixInit ==
    /\ rPieces \in SeqsUpTo(PrefixPieces, MaxPieces)
    /\ rProps \in PrefixProps
    /\ rOut = <<>>
    /\ rPc = "ready"

-----------------------------------------------------------------------------
(* Shell store harness: an InMemoryDocx, its Clone, and changes to either *)

Original == 0
TheClone == 1

HarnessPaths == {"test1.xml", "test2.xml"}
HarnessContents == {<<"x">>, <<"x", "y">>}

\* the InMemoryDocx values the harness clones: every map from some of the
\* paths to contents, the empty map included
HarnessShells == UNION {[P -> HarnessContents] : P \in SUBSET HarnessPaths}

\* the variables of the server that the harness leaves alone
cloneFrame == <<engine, pc, mode, plan, vres, workingDoc, doc, idx, ret, resp, boot>>

CloneInit ==
    /\ \E files \in HarnessShells :
          /\ docx = LoadShell(files).docx
          /\ bufs = LoadShell(files).bufs
    /\ cPc = "start"
    /\ cLast = [n |-> 0, op |-> "", target |-> Original, before |-> <<>>]

\* the contents of both objects, as a function of the object
Snapshot == [m \in DOMAIN docx |-> View([docx |-> docx, bufs |-> bufs], m)]

Changed(op, m) ==
    /\ cPc \in {"cloned", "changed"}
    /\ cLast.n < MaxChanges
    /\ cPc' = "changed"
    /\ cLast' = [n |-> cLast.n + 1, op |-> op, target |-> m, before |-> Snapshot]
    /\ UNCHANGED <<cloneFrame, renderVars>>

\* clone := shell.Clone()
CloneCall ==
    /\ cPc = "start"
    /\ LET c == Clone([docx |-> docx, bufs |-> bufs], Original, TheClone)
       IN docx' = c.heap.docx /\ bufs' = c.heap.bufs
    /\ cPc' = "cloned"
    /\ UNCHANGED <<cLast, cloneFrame, renderVars>>

\* m[path] = []byte(...): the map entry gets a buffer of its own
SetEntry(m, path, content) ==
    LET fresh == <<m, path, cLast.n + 1>>
    IN /\ docx' = [docx EXCEPT ![m] = (path :> fresh) @@ docx[m]]
       /\ bufs' = (fresh :> content) @@ bufs

\* m[path] = []byte(...) for a path the map has
ReplaceEntry ==
    \E m \in DOMAIN docx : \E path \in DOMAIN docx[m] : \E content \in HarnessContents :
        /\ SetEntry(m, path, content)
        /\ Changed("replace", m)

\* m[path] = []byte(...) for a path the map does not have
AddEntry ==
    \E m \in DOMAIN docx : \E path \in HarnessPaths \ DOMAIN docx[m] :
        \E content \in HarnessContents :
            /\ SetEntry(m, path, content)
            /\ Changed("add", m)

\* delete(m, path)
DeleteEntry ==
    \E m \in DOMAIN docx : \E path \in DOMAIN docx[m] :
        /\ docx' = [docx EXCEPT ![m] = [q \in DOMAIN docx[m] \ {path} |-> docx[m][q]]]
        /\ bufs' = bufs
        /\ Changed("delete", m)

\* m[path][i] = 'z': a byte of the entry's buffer is overwritten in place
OverwriteInPlace ==
    \E m \in DOMAIN docx : \E path \in DOMAIN docx[m] :
        \E i \in 1..Len(bufs[docx[m][path]]) :
            /\ bufs' = [bufs EXCEPT ![docx[m][path]][i] = "z"]
            /\ docx' = docx
            /\ Changed("overwrite", m)

CloneNext == CloneCall \/ ReplaceEntry \/ AddEntry \/ DeleteEntry \/ OverwriteInPlace

\* the variables of the parts a specification does not exercise
ParkedSrv ==
    /\ engine = None /\ docx = <<>> /\ bufs = <<>>
    /\ pc = <<>> /\ mode = <<>> /\ plan = <<>> /\ vres = <<>>
    /\ workingDoc = <<>> /\ doc = <<>> /\ idx = <<>> /\ ret = <<>> /\ resp = <<>>

ParkedRender == rPieces = <<>> /\ rProps = <<>> /\ rOut = <<>> /\ rPc = "off"

ParkedClone == cPc = "off" /\ cLast = None

\* the start of the process is not part of the specification
ParkedBoot == boot = None

Init == SrvInit(Requests, "http") /\ ParkedRender /\ ParkedClone /\ ParkedBoot

\* the server: NumRequests concurrent POST /generate requests on one engine
Spec == Init /\ [][Next]_vars

AssembleInit == SrvInit({1}, "direct") /\ ParkedRender /\ ParkedClone /\ ParkedBoot

\* the engine called directly, with every plan of up to MaxBody instances
SpecAssemble == AssembleInit /\ [][AssembleNext]_vars

ShellsStartInit == ShellsInit /\ ParkedRender /\ ParkedClone /\ ParkedBoot

\* the engine built over a sound or a corrupt shell, called directly
SpecShells == ShellsStartInit /\ [][AssembleNext]_vars

ValidateInit == SrvInit({1}, "validate") /\ ParkedRender /\ ParkedClone /\ ParkedBoot

\* POST /validate-plan on every plan of up to MaxBody instances
SpecValidate == ValidateInit /\ [][ValidateNext]_vars

ValidatorInit == SrvInit({1}, "validator") /\ ParkedRender /\ ParkedClone /\ ParkedBoot

\* Validator.Validate on every plan of up to MaxBody instances
SpecValidator == ValidatorInit /\ [][ValidatorNext]_vars

StartupInit == StartInit /\ ParkedRender /\ ParkedClone

\* runServer over every shell, components directory and schema of the model
SpecStartup == StartupInit /\ [][StartNext]_vars

RenderPrefixStartInit == RenderPrefixInit /\ ParkedSrv /\ ParkedClone /\ ParkedBoot

\* RenderComponent on templates and props whose placeholders share a prefix
SpecRenderPrefix == RenderPrefixStartInit /\ [][RenderNext]_vars

DocumentedStartInit == DocumentedInit /\ ParkedRender /\ ParkedClone /\ ParkedBoot

\* POST /generate on plans over the documented components
SpecDocumented == DocumentedStartInit /\ [][DocumentedNext]_vars

RenderStartInit == RenderInit /\ ParkedSrv /\ ParkedClone /\ ParkedBoot

\* RenderComponent on every template and props of the harness
SpecRender == RenderStartInit /\ [][RenderNext]_vars

CloneStartInit ==
    /\ CloneInit /\ ParkedRender
    /\ engine = None /\ pc = <<>> /\ mode = <<>> /\ plan = <<>> /\ vres = <<>>
    /\ workingDoc = <<>> /\ doc = <<>> /\ idx = <<>> /\ ret = <<>> /\ resp = <<>>
    /\ ParkedBoot

\* an InMemoryDocx is cloned, then up to MaxChanges changes are made to the
\* original and to the clone
SpecClone == CloneStartInit /\ [][CloneNext]_vars

-----------------------------------------------------------------------------
(* Claims about the renderer, checked under SpecRender *)

\* what a piece becomes when the placeholders written exactly as "{{ key }}"
\* are replaced, each by its own escaped value, and nothing else is touched
ExactSubst(pieces, props) ==
    Flatten([i \in 1..Len(pieces) |->
        IF pieces[i].kind = "hole" /\ pieces[i].ws = 1 /\ pieces[i].key \in DOMAIN props
        THEN EscapeString(Sprintv(props[pieces[i].key]))
        ELSE PieceText(pieces[i])])

\* the same, with the raw value in place of the escaped one
RawSubst(pieces, props) ==
    Flatten([i \in 1..Len(pieces) |->
        IF pieces[i].kind = "hole" /\ pieces[i].ws = 1 /\ pieces[i].key \in DOMAIN props
        THEN Sprintv(props[pieces[i].key])
        ELSE PieceText(pieces[i])])

\* the same as ExactSubst, whatever the whitespace around the key
TolerantSubst(pieces, props) ==
    Flatten([i \in 1..Len(pieces) |->
        IF pieces[i].kind = "hole" /\ pieces[i].key \in DOMAIN props
        THEN EscapeString(Sprintv(props[pieces[i].key]))
        ELSE PieceText(pieces[i])])

Substituted(pieces, props) ==
    {i \in 1..Len(pieces) :
        pieces[i].kind = "hole" /\ pieces[i].ws = 1 /\ pieces[i].key \in DOMAIN props}

\* C8: every value RenderComponent substitutes is inserted escaped: the output
\* holds no raw <, >, ' or ", every & of the output starts one of the five
\* entities, and decoding the entities gives back the template with the raw
\* values in the place of their placeholders.
C8_Escaping ==
    rPc = "done" =>
        /\ \A i \in 1..Len(rOut) :
              /\ rOut[i] \notin {"<", ">", APOS, QUOT}
              /\ rOut[i] = "&" =>
                    \E e \in {<<"&", "a", "m", "p", ";">>, <<"&", "l", "t", ";">>,
                              <<"&", "g", "t", ";">>, <<"&", "#", "3", "9", ";">>,
                              <<"&", "#", "3", "4", ";">>} : HasPrefixAt(rOut, i, e)
        /\ Unescape(rOut) = RawSubst(rPieces, rProps)

\* a value with quotes, and one with <, & and >, have been substituted
C8_Witness ==
    /\ rPc = "done"
    /\ \E i \in Substituted(rPieces, rProps) :
          Sprintv(rProps[rPieces[i].key]) = <<APOS, QUOT>>
    /\ \E i \in Substituted(rPieces, rProps) :
          Sprintv(rProps[rPieces[i].key]) = <<"<", "a", "&", "b", ">">>
    /\ Contains(rOut, <<"&", "l", "t", ";", "a", "&", "a", "m", "p", ";", "b", "&", "g", "t", ";">>)

\* some substituted value holds the placeholder of another key of props
NestedPlaceholder(pieces, props) ==
    \E i \in Substituted(pieces, props) :
        \E k \in DOMAIN props :
            /\ k # pieces[i].key
            /\ Contains(Sprintv(props[pieces[i].key]), Placeholder(k))

\* C9: single simultaneous pass: when a substituted value holds the
\* placeholder of another key of props, the value is inserted as it is (escaped)
\* and only the placeholders of the template are replaced.
C9_SinglePass ==
    (rPc = "done" /\ NestedPlaceholder(rPieces, rProps)) =>
        rOut = ExactSubst(rPieces, rProps)

\* x = "{{ y }}" was substituted with y in props, and "{{ y }}" is in the output
C9_Witness ==
    /\ rPc = "done"
    /\ NestedPlaceholder(rPieces, rProps)
    /\ KeyY \in DOMAIN rProps
    /\ rProps[KeyY] = Str(<<"v">>)
    /\ Contains(rOut, Placeholder(KeyY))

\* C10: whitespace tolerance: every placeholder of a key present in props is
\* substituted, whatever whitespace surrounds the key inside the braces; the
\* template {{x}} with x = "<a&b>" renders to text that unescapes to <a&b>.
C10_WhitespaceTolerant ==
    rPc = "done" =>
        /\ rOut = TolerantSubst(rPieces, rProps)
        /\ (rPieces = <<Hole(KeyX, 0)>> /\ KeyX \in DOMAIN rProps
              /\ rProps[KeyX] = Str(<<"<", "a", "&", "b", ">">>))
             => Unescape(rOut) = <<"<", "a", "&", "b", ">">>

-----------------------------------------------------------------------------
(* Claims about the server and the assembler *)

Heap == [docx |-> docx, bufs |-> bufs]

\* Assemble has returned bytes and no error to request r
Succeeded(r) == ret[r].called /\ ret[r].err.isNil

\* Assemble has returned an error to request r
Failed(r) == ret[r].called /\ ~ret[r].err.isNil

\* word/document.xml of the archive request r got
OutDocument(r) == Unzip(ret[r].result.zip)[DocumentXML]

\* the (stringified) prop values of a plan
PlanValues(p) ==
    UNION {{Sprintv(p.body[i].props[k]) : k \in DOMAIN p.body[i].props} : i \in 1..Len(p.body)}

\* C1: in POST /generate, Assemble is reached only after ValidatePlan returned
\* Valid=true for the plan of the same request; when ValidatePlan returned
\* Valid=false the request is answered 400 with {status: "invalid",
\* valid: false, errors: [...]} and Assemble is never called for it.
C1_ValidationPrecedesAssembly ==
    \A r \in Requests :
        /\ (pc[r] \in {"assemble", "walk", "returned"} \/ ret[r].called) =>
              /\ vres[r].ran
              /\ vres[r].result.Valid
              /\ vres[r].result = Validate(plan[r])
        /\ (vres[r].ran /\ ~vres[r].result.Valid) =>
              /\ pc[r] = "done"
              /\ ~ret[r].called
              /\ doc[r] = <<>>
              /\ resp[r].status = 400
              /\ resp[r].contentType = "application/json"
              /\ resp[r].text = "invalid"
              /\ resp[r].valid = FALSE
              /\ resp[r].errors = Validate(plan[r]).Errors
              /\ resp[r].errors # <<>>

\* one request was rejected by validation, another went through Assemble
C1_Witness ==
    \E r, q \in Requests :
        /\ vres[r].ran /\ ~vres[r].result.Valid /\ resp[r].status = 400
        /\ vres[q].ran /\ vres[q].result.Valid /\ Succeeded(q) /\ resp[q].status = 200

\* C2: with requests in flight at the same time, the document a request gets
\* holds the text of its own plan and no text of another request's plan: every
\* prop value of its own plan is there (escaped), and no prop value that only
\* another request submitted is.
C2_Isolation ==
    \A r \in Requests : Succeeded(r) =>
        /\ \A v \in PlanValues(plan[r]) : Contains(OutDocument(r), EscapeString(v))
        /\ \A q \in Requests \ {r} :
              \A v \in PlanValues(plan[q]) \ (PlanValues(plan[r]) \cup {<<>>}) :
                  ~Contains(OutDocument(r), EscapeString(v))
        /\ pc[r] = "done" => resp[r].body = ret[r].result.zip

\* two requests with different plans were assembled: one finished while the
\* other already held its working copy
C2_Witness ==
    \E r, q \in Requests :
        /\ r # q
        /\ Succeeded(r) /\ PlanValues(plan[r]) # {}
        /\ pc[q] = "walk" /\ PlanValues(plan[q]) # {}
        /\ PlanValues(plan[q]) \cap PlanValues(plan[r]) = {}

\* C3: Assemble leaves the engine's shell and its component library as
\* NewEngine loaded them, whether it succeeds or fails; what it writes goes to
\* buffers of the request's own clone.
C3_ShellAndLibraryUnchanged ==
    /\ engine = [shell |-> 0, components |-> Library]
    /\ View(Heap, engine.shell) = ShellFiles
    /\ docx[engine.shell] = LoadShell(ShellFiles).docx[0]
    /\ \A b \in DOMAIN bufs : b[1] = engine.shell => bufs[b] = ShellFiles[b[2]]

\* one Assemble call has succeeded and another has failed
C3_Witness ==
    \E r, q \in Requests : Succeeded(r) /\ Failed(q) /\ idx[q] > 1

\* a component instance Assemble cannot add: its template is not in the
\* library, or what it renders to is not well-formed XML
FailsToAdd(inst) ==
    \/ inst.component \notin DOMAIN engine.components
    \/ \A order \in Perms(DOMAIN inst.props) :
          ~ParseXML(<<Open("temp")>> \o
                    RenderComponent(engine.components[inst.component], inst.props, order)
                    \o <<Close("temp")>>).ok

\* C4: Assemble returns either a complete archive and no error, or an error and
\* no bytes; a plan with a component that cannot be added gets no bytes, also
\* when earlier components were appended before it, and the handler then
\* answers 500 with no document.
C4_AllOrNothing ==
    \A r \in Requests :
        /\ ret[r].called =>
              \/ /\ ret[r].err.isNil
                 /\ ~ret[r].result.isNil
                 /\ DOMAIN Unzip(ret[r].result.zip) = DOMAIN ShellFiles
                 /\ ParseXML(OutDocument(r)).ok
                 /\ \A i \in 1..Len(plan[r].body) : ~FailsToAdd(plan[r].body[i])
              \/ /\ ~ret[r].err.isNil
                 /\ ret[r].result = NilBytes
        /\ (ret[r].called /\ \E i \in 1..Len(plan[r].body) : FailsToAdd(plan[r].body[i])) =>
              Failed(r)
        /\ (Failed(r) /\ pc[r] = "done") =>
              /\ resp[r].status = 500
              /\ resp[r].body = <<>>
              /\ resp[r].contentType # DocxType

\* a plan whose second component fails was refused after the first was appended
C4_Witness ==
    \E r \in Requests :
        /\ Failed(r) /\ pc[r] = "done" /\ resp[r].status = 500
        /\ Len(plan[r].body) = 2
        /\ ~FailsToAdd(plan[r].body[1]) /\ FailsToAdd(plan[r].body[2])

\* C6: assembling the same plan against the same shell and library twice gives
\* byte-identical archives, the order of the zip entries included.
C6_Deterministic ==
    \A r, q \in Requests :
        (Succeeded(r) /\ Succeeded(q) /\ plan[r] = plan[q]) =>
            ret[r].result.zip = ret[q].result.zip

\* the child elements of w:body in a document.xml
BodyChildren(bytes) ==
    LET tree == ParseXML(bytes).tree IN ChildElements(tree, FindBody(tree))

\* the top-level elements of the template of an instance, once rendered; an
\* instance whose component the library does not hold has no template and so
\* no elements
RenderedElements(inst) ==
    IF inst.component \notin DOMAIN engine.components THEN <<>>
    ELSE
        LET order == CHOOSE o \in Perms(DOMAIN inst.props) : TRUE
            rendered == RenderComponent(engine.components[inst.component], inst.props, order)
        IN ChildElements(ParseXML(<<Open("temp")>> \o rendered \o <<Close("temp")>>).tree, 1)

\* C5: in the body of the output the content the shell already had comes
\* first, and after it the elements of the components in the order of
\* plan.body, the elements of one component in the order of its template.
C5_OrderPreserved ==
    Succeeded(1) =>
        BodyChildren(OutDocument(1)) =
            BodyChildren(ShellDocument)
                \o Flatten([i \in 1..Len(plan[1].body) |-> RenderedElements(plan[1].body[i])])

\* a plan of MaxBody components, not all the same, was assembled
C5_Witness ==
    /\ Succeeded(1)
    /\ Len(plan[1].body) = MaxBody
    /\ plan[1].body[1] # plan[1].body[2]
    /\ Len(BodyChildren(OutDocument(1))) = 1 + 2 * MaxBody

\* the other of the two InMemoryDocx of the shell store harness
Other(m) == IF m = Original THEN TheClone ELSE Original

\* C7: the clone has the paths of the original and equal bytes for each; a
\* later change to the clone (an entry replaced, added or deleted, bytes of an
\* entry overwritten in place) leaves the original as it was, and a change to
\* the original leaves the clone as it was.
C7_CloneIndependent ==
    /\ cPc = "cloned" =>
          /\ DOMAIN docx[TheClone] = DOMAIN docx[Original]
          /\ \A path \in DOMAIN docx[Original] :
                bufs[docx[TheClone][path]] = bufs[docx[Original][path]]
    /\ cPc = "changed" =>
          Snapshot[Other(cLast.target)] = cLast.before[Other(cLast.target)]

\* bytes of an entry of the clone were overwritten in place, and after that
\* bytes of an entry of the original
C7_Witness ==
    /\ cPc = "changed" /\ cLast.n = 2
    /\ cLast.op = "overwrite" /\ cLast.target = Original
    /\ Snapshot[Original] # cLast.before[Original]
    /\ cLast.before[TheClone] # cLast.before[Original]
    /\ DOMAIN docx[TheClone] = DOMAIN docx[Original]
    /\ Cardinality(DOMAIN docx[Original]) = 2

\* the instances nested under the reserved key children of an instance
ChildrenOf(inst) ==
    IF <<"children">> \in DOMAIN inst.props /\ inst.props[<<"children">>].t = "list"
    THEN inst.props[<<"children">>].items
    ELSE <<>>

\* C11: children is never a substitution key: for an instance that carries
\* children, the text of the children array is not in the assembled document,
\* and a children placeholder of its template is left as it was written.
C11_ChildrenNotSubstituted ==
    Succeeded(1) =>
        \A i \in 1..Len(plan[1].body) :
            LET inst == plan[1].body[i]
            IN <<"children">> \in DOMAIN inst.props =>
                  /\ ~Contains(OutDocument(1), EscapeString(Sprintv(inst.props[<<"children">>])))
                  /\ Contains(engine.components[inst.component], Placeholder(<<"children">>))
                        => Contains(OutDocument(1), Placeholder(<<"children">>))

\* the elements an instance and the instances nested under it come to: its
\* own, then those of each child in order, each with its own children
RECURSIVE ElementsWithChildren(_)
ElementsWithChildren(inst) ==
    RenderedElements(inst)
        \o Flatten([k \in 1..Len(ChildrenOf(inst)) |-> ElementsWithChildren(ChildrenOf(inst)[k])])

\* C12: the elements of the children of an instance are in the body right
\* after the elements of the instance itself, in the order of the children
\* array and before the elements of the next body entry, nested children
\* included.
C12_ChildrenAssembled ==
    Succeeded(1) =>
        BodyChildren(OutDocument(1)) =
            BodyChildren(ShellDocument)
                \o Flatten([i \in 1..Len(plan[1].body) |-> ElementsWithChildren(plan[1].body[i])])

\* the body entries of request r whose component name is no key of the library
MissingAt(r) ==
    {i \in 1..Len(plan[r].body) : plan[r].body[i].component \notin DOMAIN engine.components}

CorruptShell ==
    LET files == View(Heap, engine.shell)
    IN \/ DocumentXML \notin DOMAIN files
       \/ ~ParseXML(files[DocumentXML]).ok
       \/ \A i \in 1..Len(files[DocumentXML]) :
             files[DocumentXML][i] \notin {Open("w:body"), Empty("w:body")}

\* C14: over a corrupt shell every Assemble call, also one with an empty
\* body, returns a DocGenError of operation "assembly" and no document, and
\* no component is added.
C14_CorruptShellFails ==
    (CorruptShell /\ pc[1] \notin {"idle", "assemble"}) =>
        /\ pc[1] = "returned"
        /\ Failed(1)
        /\ ret[1].err.op = "assembly"
        /\ ret[1].result = NilBytes
        /\ idx[1] = 0

\* Assemble of the plan with an empty body has returned over a shell whose
\* document.xml is well-formed and has no w:body
C14_Witness ==
    /\ Failed(1) /\ plan[1].body = <<>>
    /\ DocumentXML \in DOMAIN docx[engine.shell]
    /\ ParseXML(View(Heap, engine.shell)[DocumentXML]).ok
    /\ CorruptShell

\* the errors of the result whose path starts at body entry i (counted from 1)
ErrorsAt(result, i) ==
    {k \in 1..Len(result.Errors) :
        /\ Len(result.Errors[k].path) >= 3
        /\ SubSeq(result.Errors[k].path, 1, 3) = <<"body", ".", ToString(i - 1)>>}

\* C15: a plan with a body entry whose component is not one of the names of
\* the rule set is invalid, and for each such entry an error of the result
\* has a path that gives the index of the entry.
C15_UnknownComponentRejected ==
    vres[1].ran =>
        \A i \in 1..Len(plan[1].body) :
            plan[1].body[i].component \notin
                {"DocumentCategoryTitle", "DocumentTitle", "DocumentSubject", "TestBlock",
                 "AuthorBlock"} =>
                    /\ ~vres[1].result.Valid
                    /\ ErrorsAt(vres[1].result, i) # {}
                    /\ resp[1].status = 400 /\ resp[1].errors = vres[1].result.Errors

\* a plan whose third entry has an unknown component, after two sound
\* entries, was validated
C15_Witness ==
    /\ vres[1].ran /\ Len(plan[1].body) = 3
    /\ plan[1].body[1] \in GoodInstances /\ plan[1].body[2] \in GoodInstances
    /\ plan[1].body[3].component = "Paragraph"
    /\ ErrorsAt(vres[1].result, 3) # {}
    /\ ErrorsAt(vres[1].result, 1) = {}

\* the number of DocumentTitle entries of a body
TitleCount(body) == Cardinality({i \in 1..Len(body) : body[i].component = "DocumentTitle"})

C17_ExactlyOneTitle ==
    (vres[1].ran /\ TitleCount(plan[1].body) # 1) =>
        /\ ~vres[1].result.Valid
        /\ resp[1].status = 400 /\ resp[1].text = "invalid"

\* C18: a plan whose body is empty is rejected: /generate answers it with 400
\* and never with a document.
C18_EmptyBodyRejected ==
    \A r \in Requests :
        (pc[r] = "done" /\ vres[r].ran /\ plan[r].body = <<>>) =>
            /\ ~vres[r].result.Valid
            /\ resp[r].status = 400 /\ resp[r].body = <<>>

\* C19: in every result of Validate, Valid is true exactly when the list of
\* errors is empty, and the answer of /validate-plan carries the same pair.
C19_ValidIffNoErrors ==
    vres[1].ran =>
        /\ vres[1].result.Valid <=> vres[1].result.Errors = <<>>
        /\ resp[1].valid = vres[1].result.Valid
        /\ resp[1].errors = vres[1].result.Errors

\* an invalid result with its errors was returned and answered
C19_Witness ==
    /\ vres[1].ran /\ ~vres[1].result.Valid
    /\ Len(vres[1].result.Errors) >= 1
    /\ resp[1].errors = vres[1].result.Errors /\ resp[1].status = 400

\* the number of rules of rules.cue a body entry breaks: both the date and the
\* result of the last TestBlock of BadInstances, one rule for every other entry
\* of BadInstances, none for an entry of GoodInstances
RulesBroken(inst) ==
    IF inst = TestBlock(BadDate, Maybe) THEN 2
    ELSE IF inst \in BadInstances THEN 1
    ELSE 0

RECURSIVE TotalBroken(_)
TotalBroken(body) ==
    IF body = <<>> THEN 0 ELSE RulesBroken(Head(body)) + TotalBroken(Tail(body))

\* C20: a plan that breaks k rules at once (over its body entries, and over
\* the props of one entry) gets a result with at least k distinct errors, at
\* least as many at each entry as the rules that entry breaks.
C20_AllViolationsReported ==
    vres[1].ran =>
        LET body == plan[1].body
            result == vres[1].result
            distinct(ks) == {result.Errors[k] : k \in ks}
        IN /\ Cardinality(distinct(1..Len(result.Errors))) >= TotalBroken(body)
           /\ \A i \in 1..Len(body) :
                 Cardinality(distinct(ErrorsAt(result, i))) >= RulesBroken(body[i])

\* a plan breaking four rules in three entries got four distinct errors or more
C20_Witness ==
    /\ vres[1].ran
    /\ plan[1].body = <<Title(<<>>), TestBlock(BadDate, Maybe), Paragraph(<<"F">>)>>
    /\ Cardinality({vres[1].result.Errors[k] : k \in 1..Len(vres[1].result.Errors)}) >= 4

\* an internal failure of Validate: the plan could not be encoded, or the
\* check answered with an error that is no CUE error
InternalFailure ==
    /\ vres[1].ran
    /\ \/ ~Encodes(plan[1])
       \/ ~vres[1].check.isNil /\ ~vres[1].check.isCue

AnswerDocument(r) ==
    /\ resp[r].status = 200 /\ resp[r].contentType = DocxType
    /\ resp[r].body # <<>> /\ resp[r].body = ret[r].result.zip
    /\ resp[r].errors = <<>>

AnswerRejection(r) ==
    /\ resp[r].status = 400 /\ resp[r].contentType = "application/json"
    /\ resp[r].text = "invalid" /\ ~resp[r].valid
    /\ resp[r].errors # <<>> /\ resp[r].errors = vres[r].result.Errors
    /\ resp[r].body = <<>>

AnswerInternalError(r) ==
    /\ resp[r].status = 500 /\ resp[r].contentType = "text/plain"
    /\ resp[r].text = "Failed to generate document"
    /\ resp[r].body = <<>> /\ resp[r].errors = <<>>

AllLoad ==
    /\ boot.shell.kind = "zip"
    /\ ~boot.dir.missing
    /\ \A k \in 1..Len(boot.dir.walk) :
          LET e == boot.dir.walk[k]
          IN ~e.walkErr /\ ((~e.isDir /\ e.ext = ComponentExt) => e.readable)
    /\ boot.schema = "rules.cue"

\* C23: an engine exists only when the shell, the components directory and
\* the schema all loaded without error; when one of them fails the process
\* ends without an engine and without listening; no request is handled
\* before the engine exists.
C23_StartupAllOrNothing ==
    /\ engine # NoEngine => (AllLoad /\ boot.pc = "serving")
    /\ boot.pc = "serving" => engine # NoEngine
    /\ ~AllLoad => boot.pc # "serving"
    /\ boot.pc = "fatal" => (~AllLoad /\ engine = NoEngine)
    /\ pc[1] # "waiting" => (engine # NoEngine /\ boot.pc = "serving")

\* NewEngine failed at its last load, after the shell and the components
\* were read: no engine, no request handled
C23_Witness ==
    /\ boot.pc = "fatal" /\ engine = NoEngine /\ pc[1] = "waiting"
    /\ boot.shell.kind = "zip" /\ boot.schema = "broken" /\ docx # <<>>
    /\ Len(boot.dir.walk) = 2

\* C24: the archive a successful Assemble returns has one entry for each
\* path of the shell and no other, and every entry but word/document.xml has
\* the bytes of the shell's entry of the same path.
C24_PackagePassThrough ==
    Succeeded(1) =>
        LET zip == ret[1].result.zip
            out == Unzip(zip)
            shell == View(Heap, engine.shell)
        IN /\ DOMAIN out = DOMAIN shell
           /\ Len(zip) = Cardinality(DOMAIN shell)
           /\ \A p \in DOMAIN shell \ {DocumentXML} : out[p] = shell[p]

\* a plan was assembled over the shell of three entries, and its
\* word/document.xml is no longer the shell's
C24_Witness ==
    /\ Succeeded(1) /\ Len(plan[1].body) >= 1
    /\ View(Heap, engine.shell) = FilledShell
    /\ Unzip(ret[1].result.zip)[ThemeXML] = <<"t">>
    /\ OutDocument(1) # FilledShell[DocumentXML]

\* the visits of a walk that are component files named <name>.component.xml
FilesNamed(walk, name) ==
    {k \in 1..Len(walk) : ~walk[k].isDir /\ walk[k].ext = ComponentExt /\ walk[k].base = name}

\* C25: when two files of the components directory, in different
\* subdirectories, are both named <Name>.component.xml, LoadComponents
\* succeeds (when nothing else fails) and the library of the engine holds one
\* entry for <Name>: the whole content of the file the walk visits last.
C25_LastLoadedWins ==
    \A name \in {"DocumentTitle", "DocumentSubject"} :
        LET walk == boot.dir.walk
            named == FilesNamed(walk, name)
        IN /\ (boot.pc \in {"components", "serving"} /\ named # {}) =>
                 /\ name \in DOMAIN boot.components
                 /\ boot.components[name] = walk[CHOOSE k \in named : \A j \in named : j <= k].content
           /\ (boot.pc = "serving" /\ named # {}) =>
                 engine.components[name] = walk[CHOOSE k \in named : \A j \in named : j <= k].content
           /\ ~(boot.pc = "fatal" /\ Cardinality(named) >= 2 /\ AllLoad)

\* the engine serves with the template of the second of two files named
\* DocumentTitle.component.xml, which differs from the first
C25_Witness ==
    /\ boot.pc = "serving"
    /\ LET named == FilesNamed(boot.dir.walk, "DocumentTitle")
       IN /\ Cardinality(named) = 2
          /\ \E j, k \in named :
                /\ j < k /\ boot.dir.walk[j].dir # boot.dir.walk[k].dir
                /\ boot.dir.walk[j].content # boot.dir.walk[k].content
                /\ engine.components["DocumentTitle"] = boot.dir.walk[k].content
    /\ DOMAIN engine.components = {"DocumentTitle"}

\* C26: for a template and a props map, RenderComponent returns the same
\* string in whatever order the props map is iterated to build the
\* replacement pairs, also when the placeholder of one key starts with the
\* placeholder of another.
C26_OrderIndependent ==
    rPc = "done" =>
        \A order \in Perms(DOMAIN rProps) :
            RenderComponent(TemplateOf(rPieces), rProps, order) = rOut

\* an archive with a word/document.xml that is well-formed and has a body
SoundArchive(files) ==
    /\ DocumentXML \in DOMAIN files
    /\ ParseXML(files[DocumentXML]).ok
    /\ FindBody(ParseXML(files[DocumentXML]).tree) # 0

\* C27: once the engine is constructed its shell holds a word/document.xml
\* with a body element; an archive without one is rejected when it is loaded,
\* so that the process does not serve and no request is handled over it.
C27_ShellInvariant ==
    /\ boot.pc \in {"shell", "components", "serving"} => SoundArchive(boot.shell.files)
    /\ boot.pc = "serving" => ~CorruptShell
    /\ pc[1] # "waiting" => ~CorruptShell

\* C28: there is a ceiling on the number of component instances of a plan
\* above which Assemble returns an error.  A plan above a ceiling is above
\* every lower one, so a ceiling below MaxBody requires that every plan of
\* MaxBody instances is answered with an error and is not rendered to its end.
C28_PlanSizeCeiling ==
    (ret[1].called /\ Len(plan[1].body) >= MaxBody) =>
        /\ Failed(1)
        /\ idx[1] <= Len(plan[1].body)

\* the child elements the body of the shell's word/document.xml has
ShellBodyChildren == BodyChildren(View(Heap, engine.shell)[DocumentXML])

TemplateKeys ==
    {"document_title", "document_subject", "category_title", "author_name", "company_name",
     "address_line1", "address_line2", "city_state_zip", "phone", "fax", "website"}

\* C30: the document assembled for a plan that validation accepted holds no
\* placeholder token: every placeholder of the templates used had a key in
\* the props of its instance.
C30_ValidatedRenderCompletely ==
    (vres[1].ran /\ vres[1].result.Valid /\ Succeeded(1)) =>
        /\ \A key \in TemplateKeys : ~Contains(OutDocument(1), Placeholder(<<key>>))
        /\ ~Contains(OutDocument(1), <<"{", "{">>)

=============================================================================
